---- MODULE Spec2Model ----
(***************************************************************************)
(* PAXECT Link plugin v2.1 (paxect_link_plugin_v2.py): the relay router    *)
(* (envelopes, dedup, forwarding, discovery, heartbeat / route gossip over *)
(* the filesystem transport), modelled as a state machine.                 *)
(*                                                                         *)
(* Abstractions used throughout:                                           *)
(*  - wall-clock time: a peer has an `age`, the seconds since last_seen   *)
(*    (0, HEARTBEAT_TIMEOUT, or one more), a route is `expired` when       *)
(*    now > expires; the environment advances them, the code resets them.  *)
(*  - msg_id (uuid4()[:8]) is a number; fresh ids come from a counter.     *)
(*  - no operation of the source ever stores a socket_addr in a PeerInfo,  *)
(*    so _send_to_peer always takes the filesystem branch; the TCP         *)
(*    transport is modelled on its own, with the threads that call it.     *)
(*  - PeerInfo.hostname / public_key / failures are written and never read *)
(*    by the router; they are not part of the state.                       *)
(***************************************************************************)
EXTENDS Integers, Sequences, FiniteSets, TLC

\* ------------------------------------------------------------------------
\* Program constants
\* ------------------------------------------------------------------------
MAX_TTL == 16
MAX_HOPS == 32
SeenCap == 10000
SeenKeep == 5000
max_file_mb == 256
HEARTBEAT_TIMEOUT == 15

\* ------------------------------------------------------------------------
\* Bounds of the model
\* ------------------------------------------------------------------------
MaxMsgs == 3
MaxWire == 2
MaxWireIds == 2
MaxCodecHops == 2
MaxPlaced == 3

\* Routers of the model, one node id that is not a router of the model, and
\* the broadcast address.
Nodes == {"n1", "n2"}
Foreign == "nx"
Star == "*"
NodeIds == Nodes \cup {Foreign}

VARIABLES
    up,         \* up[n]: router n is started (transport poller and loops run)
    presence,   \* set of n whose SHARED/<n>.presence file exists
    peers,      \* peers[n]: function peer id -> [fs_inbox, socket_addr, age]
    routes,     \* routes[n]: function destination -> [next_hop, metric, expired]
    seen,       \* seen[n]: the msg_ids of the model held in LinkRouter._seen
    seenOther,  \* seenOther[n]: number of further msg_ids held in _seen
    fsInbox,    \* fsInbox[n]: function msg_id -> envelope, the *.msg files
    nextId,     \* number of msg_ids generated so far
    wireCount,  \* number of envelopes written by other processes so far
    dataCalls,  \* dataCalls[n]: envelopes passed to the data callback, in order
    lastRecv,   \* the envelope handled by the last _on_message, and its node
    lastSent    \* the transmissions made by the last step

routerVars == <<up, presence, peers, routes, seen, seenOther, fsInbox,
                nextId, wireCount, dataCalls, lastRecv, lastSent>>

VARIABLES
    codec       \* [pc, env, wire, back, again]: an Envelope, its to_bytes(),
                \* the from_bytes() of that, and a second to_bytes()

VARIABLES
    inbox,      \* inbox[n]: the files of node n's INBOX, name -> [data, from]
    outbox,     \* outbox[n]: the files of node n's OUTBOX
    log,        \* log[n]: the entries written to LOGFILE, as a set
    cfg,        \* the policy and the environment: [trusted, auto_delete,
                \* aead], aead "on" if PAXECT_AEAD and a passphrase are set
    placed,     \* number of files put into an inbox from outside so far
    lastOp      \* what the last step did to the files

fileVars == <<inbox, outbox, log, cfg, placed, lastOp>>

VARIABLES
    rendezvous,     \* the JSON map of RENDEZVOUS_FILE: key -> [node_id, hostname]
    clock,          \* [expired, timeout]: the keys whose expires_at has passed,
                    \* and whether wait_for_accept's timeout has passed
    proc,           \* proc[p]: [pc, data, todo, found, exit] of the pairing
                    \* process of p; exit is <<>> while main runs, else
                    \* <<status>>
    trusted_nodes   \* trusted_nodes[p]: "trusted_nodes" of p's policy file

pairVars == <<rendezvous, clock, proc, trusted_nodes>>

VARIABLES
    lockfile,       \* LOCKFILE: <<>> if absent, else <<i>>, the instance whose
                    \* pid it holds
    identity_file,  \* IDENTITY_FILE: <<>> if absent, else <<node_id>>
    inst            \* inst[i]: [pc, node_id, router_id, running, exit] of the
                    \* daemon process i started in the node directory of n1

daemonVars == <<lockfile, identity_file, inst>>

VARIABLES
    held,       \* held[t]: the mutexes thread t of a router holds
    stack,      \* stack[t]: the call stack of thread t, frames [fn, i]: the
                \* function and the index of its next statement
    conns,      \* SocketTransport._conns: node_id -> socket
    socks,      \* the sockets created so far, in order: [dir, peer, open,
                \* rx, closer]
    sender,     \* sender[c]: [pc, c] of a thread inside SocketTransport.send
    fsdir,      \* one transport inbox directory and the senders that write
                \* into it, each its own <msg_id>.msg: [ino, tmp, msg, w, read]
    ping        \* the HEARTBEAT envelopes between two routers: [box, known,
                \* running, beats]

concVars == <<held, stack, conns, socks, sender, fsdir, ping>>

otherVars == <<codec, fileVars, pairVars, daemonVars, concVars>>

\* The parts of the state a specification does not run.
CodecIdle == [pc |-> "idle"]

NoOp == [node |-> "", op |-> "", src |-> <<>>, mismatch |-> FALSE,
         final_exists |-> FALSE, made |-> {}, removed |-> {}, logged |-> {}]

FilesInit(cfgs) ==
    /\ inbox = [n \in Nodes |-> [x \in {} |-> x]]
    /\ outbox = [n \in Nodes |-> [x \in {} |-> x]]
    /\ log = [n \in Nodes |-> {}]
    /\ cfg \in cfgs
    /\ placed = 0
    /\ lastOp = NoOp

\* The sharer (--share) and the connector (--connect) of a pairing; a second
\* process that may run --connect with the same code.
Sharer == "n1"
Connector == "n2"
Pairers == Nodes \cup {Foreign}

\* Before share_mode and connect_mode are called: the rendezvous file holds
\* nothing, each policy file has the DEFAULT_POLICY trusted_nodes.
PairInit ==
    /\ rendezvous = [x \in {} |-> x]
    /\ clock = [expired |-> {}, timeout |-> FALSE]
    /\ proc = [p \in Pairers |->
                 [pc |-> IF p = Sharer THEN "pub_load"
                         ELSE IF p = Connector THEN "connect" ELSE "off",
                  data |-> [x \in {} |-> x], todo |-> <<>>, found |-> FALSE,
                  exit |-> <<>>]]
    /\ trusted_nodes = [p \in Pairers |-> {"localhost"}]

\* The processes started in one node directory (one LOCKFILE, one
\* IDENTITY_FILE, one INBOX), none of them started yet.
Instances == {"i1", "i2"}

NotStarted == [pc |-> "off", node_id |-> <<>>, router_id |-> <<>>,
               running |-> TRUE, exit |-> <<>>]

DaemonInit ==
    /\ lockfile = <<>>
    /\ identity_file = <<>>
    /\ inst = [i \in Instances |-> NotStarted]

\* The threads that are followed statement by statement, and the senders of
\* the TCP transport, none of them started.
MaxThreads == 2
Threads == 1..MaxThreads
Senders == {"s1", "s2"}

Writers == {"w1", "w2"}

\* An empty inbox directory; no process is writing.
DirIdle ==
    [ino |-> <<>>, tmp |-> [x \in Writers |-> 0], msg |-> [x \in Writers |-> 0],
     w |-> [x \in Writers |-> [pc |-> "idle", fd |-> 0]], read |-> {}]

\* No HEARTBEAT has been sent.
PingIdle ==
    [box |-> [n \in Nodes |-> {}], known |-> [n \in Nodes |-> FALSE],
     running |-> TRUE, beats |-> 0]

ConcIdle ==
    /\ ping = PingIdle
    /\ fsdir = DirIdle
    /\ held = [t \in Threads |-> {}]
    /\ stack = [t \in Threads |-> <<>>]
    /\ conns = [x \in {} |-> x]
    /\ socks = <<>>
    /\ sender = [c \in Senders |-> [pc |-> "off", c |-> 0]]

OthersIdle ==
    /\ codec = CodecIdle
    /\ FilesInit({[trusted |-> TRUE, auto_delete |-> TRUE, aead |-> "off"]})
    /\ PairInit
    /\ DaemonInit
    /\ ConcIdle

vars == <<routerVars, otherVars>>

\* ------------------------------------------------------------------------
\* Envelope
\* ------------------------------------------------------------------------
MsgTypes == {"DATA", "HANDSHAKE", "ACK", "HB", "ROUTE"}

NoPayload == [data |-> <<>>, routes |-> {}]

\* hops is the list of the model's node ids in the hop list; xhops counts
\* the further entries of the hop list (ids of nodes outside the model, all
\* different from each other).
Envelope(id, type, src, dst, pl) ==
    [msg_id |-> id, msg_type |-> type, source |-> src, destination |-> dst,
     ttl |-> MAX_TTL, hops |-> <<>>, xhops |-> 0, payload |-> pl]

HopsLen(env) == Len(env.hops) + env.xhops

add_hop_keeps_ttl(env, node) == [env EXCEPT !.hops = Append(@, node)]

add_hop(env, node) ==
    [env EXCEPT !.hops = Append(@, node), !.ttl = @ - 1]

can_forward(env) == env.ttl > 0 /\ HopsLen(env) < MAX_HOPS

visited(env, node) == \E i \in 1..Len(env.hops) : env.hops[i] = node

HopSet(env) == {env.hops[i] : i \in 1..Len(env.hops)}

NoEnv == Envelope(0, "DATA", Foreign, Foreign, NoPayload)

\* ------------------------------------------------------------------------
\* Routing table (RoutingTable.add / get / remove_via)
\* ------------------------------------------------------------------------
RouteEntry(nh, m) == [next_hop |-> nh, metric |-> m, expired |-> FALSE]

\* add: the entry for dest is overwritten, whatever it held.
RoutingAdd(rt, dest, nh, m) ==
    [d \in DOMAIN rt \cup {dest} |-> IF d = dest THEN RouteEntry(nh, m) ELSE rt[d]]

\* get: the entry iff present and not expired.
RoutingHas(rt, dest) == dest \in DOMAIN rt /\ ~rt[dest].expired

remove_via(rt, node) ==
    [d \in {x \in DOMAIN rt : rt[x].next_hop # node} |-> rt[d]]

\* ------------------------------------------------------------------------
\* Peer registry
\* ------------------------------------------------------------------------
\* PeerInfo(node_id, last_seen = now): no fs_inbox, no socket_addr.  age is
\* now - last_seen in seconds.
NewPeer == [fs_inbox |-> FALSE, socket_addr |-> FALSE, age |-> 0]

\* _get_or_create_peer
get_or_create_peer(ps, p) ==
    IF p \in DOMAIN ps THEN ps
    ELSE [q \in DOMAIN ps \cup {p} |-> IF q = p THEN NewPeer ELSE ps[q]]

\* _touch_peer: last_seen := now, for a registered peer only.
touch_peer(ps, p) ==
    IF p \in DOMAIN ps THEN [ps EXCEPT ![p].age = 0] ELSE ps

\* ------------------------------------------------------------------------
\* Sending.  A transmission is [from, to, env, bcast]; the operators below
\* return the set of transmissions the code performs, given the sender's
\* registry ps and routing table rt.
\* ------------------------------------------------------------------------
Tx(n, p, env, b) ==
    [from |-> n, to |-> p, env |-> env, bcast |-> b, via |-> "FS"]

\* _send_to_peer: the peer must be registered; the socket branch needs
\* peer.socket_addr and is tried first; the filesystem branch needs
\* peer.fs_inbox.  Either transport hands the envelope to the _on_message
\* of the receiver, so the pending map of the receiver holds both kinds.
SendOk(ps, p) == p \in DOMAIN ps /\ ps[p].fs_inbox

TcpOk(ps, p) == p \in DOMAIN ps /\ ps[p].socket_addr

send_to_peer(n, ps, p, env, b) ==
    IF TcpOk(ps, p) THEN {[Tx(n, p, env, b) EXCEPT !.via = "TCP"]}
    ELSE IF SendOk(ps, p) THEN {Tx(n, p, env, b)} ELSE {}

BroadcastTargets_all_peers(ps, env) == DOMAIN ps

\* _broadcast_env: every registered peer that is not in the hop list.
BroadcastTargets(ps, env) == {p \in DOMAIN ps : p \notin HopSet(env)}

broadcast_env(n, ps, env) ==
    UNION {send_to_peer(n, ps, p, env, TRUE) : p \in BroadcastTargets(ps, env)}

route_message_skips_table(n, ps, rt, env) ==
    IF env.destination \in DOMAIN ps
    THEN send_to_peer(n, ps, env.destination, env, FALSE)
    ELSE broadcast_env(n, ps, [env EXCEPT !.destination = Star])

\* _route_message: direct peer, else live route, else broadcast with the
\* destination rewritten to "*".
route_message(n, ps, rt, env) ==
    IF env.destination \in DOMAIN ps
    THEN send_to_peer(n, ps, env.destination, env, FALSE)
    ELSE IF RoutingHas(rt, env.destination)
    THEN send_to_peer(n, ps, rt[env.destination].next_hop, env, FALSE)
    ELSE broadcast_env(n, ps, [env EXCEPT !.destination = Star])

\* FSTransport.send for every transmission: OSLayer.atomic_write of
\* <peer inbox>/<msg_id>.msg, replacing a file of that name.
FsWrite(box, txs) ==
    [m \in Nodes |->
        LET mine == {t \in txs : t.to = m}
            ids == {t.env.msg_id : t \in mine}
        IN [i \in DOMAIN box[m] \cup ids |->
               IF i \in ids
               THEN (CHOOSE t \in mine : t.env.msg_id = i).env
               ELSE box[m][i]]]

\* ------------------------------------------------------------------------
\* Message ids
\* ------------------------------------------------------------------------
\* Ids 1..MaxWireIds are used by envelopes written by other processes; the
\* k-th id a router of the model generates is MaxWireIds + k.
WireIds == 1..MaxWireIds
FreshId(k) == MaxWireIds + nextId + k

Ord(p) == CASE p = "n1" -> 1 [] p = "n2" -> 2 [] OTHER -> 3

\* The position of p in S (1-based), in the order Ord.
Rank(S, p) == Cardinality({q \in S : Ord(q) <= Ord(p)})

PubPayload == [data |-> <<"pub">>, routes |-> {}]
DataPayload(d) == [data |-> d, routes |-> {}]
RoutePayload(rs) == [data |-> <<>>, routes |-> rs]

\* ------------------------------------------------------------------------
\* LinkRouter._on_message
\* ------------------------------------------------------------------------
handle_route_adds_local(n, rt, env) ==
    LET adv == env.payload.routes
        dests == {r[1] : r \in adv}
    IN [d \in DOMAIN rt \cup dests |->
           IF d \in dests
           THEN RouteEntry(env.source, (CHOOSE r \in adv : r[1] = d)[2] + 1)
           ELSE rt[d]]

\* The ROUTE handler: add(dest, source, metric + 1) for every advertised
\* route whose dest is not the local node.
handle_route(n, rt, env) ==
    LET adv == {r \in env.payload.routes : r[1] # n}
        dests == {r[1] : r \in adv}
    IN [d \in DOMAIN rt \cup dests |->
           IF d \in dests
           THEN RouteEntry(env.source, (CHOOSE r \in adv : r[1] = d)[2] + 1)
           ELSE rt[d]]

MayForward_any_node(n, env) == can_forward(env)

\* The forwarding test of _on_message.
MayForward(n, env) == can_forward(env) /\ ~visited(env, n)

Handled_transit_delivered(n, env) ==
    [peers |-> touch_peer(peers[n], env.source), routes |-> routes[n],
     txs |-> {}, call |-> env.msg_type = "DATA"]

\* What _on_message does with an envelope that passed the dedup test:
\* [peers, routes, txs, fresh, call] = the node's registry and table after
\* the call, the transmissions made, the number of msg_ids generated, and
\* whether the data callback was invoked.
Handled(n, env) ==
    LET ps1 == touch_peer(peers[n], env.source)
        rt == routes[n]
        none == [peers |-> ps1, routes |-> rt, txs |-> {}, call |-> FALSE]
    IN IF env.destination \notin {Star, n}
       THEN IF MayForward(n, env)
            THEN [none EXCEPT !.txs = route_message(n, ps1, rt, add_hop(env, n))]
            ELSE none
       ELSE CASE env.msg_type = "HANDSHAKE" ->
                 LET ps2 == touch_peer(get_or_create_peer(ps1, env.source), env.source)
                     ack == Envelope(FreshId(1), "ACK", n, env.source, PubPayload)
                 IN [peers |-> ps2,
                     routes |-> RoutingAdd(rt, env.source, env.source, 1),
                     txs |-> send_to_peer(n, ps2, env.source, ack, FALSE),
                     call |-> FALSE]
            [] env.msg_type = "ACK" ->
                 [none EXCEPT
                    !.peers = touch_peer(get_or_create_peer(ps1, env.source), env.source),
                    !.routes = RoutingAdd(rt, env.source, env.source, 1)]
            [] env.msg_type = "HB" ->
                 [none EXCEPT !.txs = send_to_peer(n, ps1, env.source,
                      Envelope(FreshId(1), "HB", n, env.source, NoPayload), FALSE)]
            [] env.msg_type = "ROUTE" ->
                 [none EXCEPT !.routes = handle_route(n, rt, env)]
            [] OTHER ->
                 [none EXCEPT !.call = TRUE]

\* The msg_ids generated by a set of transmissions.
FreshUsed(txs) == Cardinality({t.env.msg_id : t \in txs} \ (1..(MaxWireIds + nextId)))

\* The dedup block: the id is added; above SeenCap entries the set is cut to
\* set(list(_seen)[-SeenKeep:]), SeenKeep entries in the iteration order of
\* a set, that is any SeenKeep of them.  keep is the part of them that are
\* ids of the model.
Dedup(n, id, keep) ==
    LET added == seen[n] \cup {id}
    IN IF Cardinality(added) + seenOther[n] > SeenCap
       THEN /\ keep \subseteq added
            /\ SeenKeep - Cardinality(keep) <= seenOther[n]
            /\ seen' = [seen EXCEPT ![n] = keep]
            /\ seenOther' = [seenOther EXCEPT ![n] = SeenKeep - Cardinality(keep)]
       ELSE /\ keep = added
            /\ seen' = [seen EXCEPT ![n] = added]
            /\ UNCHANGED seenOther

\* _on_message(env) at node n; box is the transport inboxes after the poller
\* removed the file.
OnMessage(n, env, box) ==
    /\ lastRecv' = [node |-> n, env |-> env]
    /\ IF env.msg_id \in seen[n]
       THEN /\ fsInbox' = box
            /\ lastSent' = {}
            /\ UNCHANGED <<peers, routes, seen, seenOther, nextId, dataCalls>>
       ELSE LET h == Handled(n, env)
            IN /\ \E keep \in SUBSET (seen[n] \cup {env.msg_id}) :
                      Dedup(n, env.msg_id, keep)
               /\ nextId + FreshUsed(h.txs) <= MaxMsgs
               /\ peers' = [peers EXCEPT ![n] = h.peers]
               /\ routes' = [routes EXCEPT ![n] = h.routes]
               /\ fsInbox' = FsWrite(box, h.txs)
               /\ nextId' = nextId + FreshUsed(h.txs)
               /\ lastSent' = h.txs
               /\ dataCalls' = IF h.call
                               THEN [dataCalls EXCEPT ![n] = Append(@, env)]
                               ELSE dataCalls

\* FSTransport._poll: one *.msg file is read, unlinked and dispatched.
FSPoll(n) ==
    /\ up[n]
    /\ \E id \in DOMAIN fsInbox[n] :
          LET env == fsInbox[n][id]
              box == [fsInbox EXCEPT
                        ![n] = [i \in DOMAIN fsInbox[n] \ {id} |-> fsInbox[n][i]]]
          IN OnMessage(n, env, box)
    /\ UNCHANGED <<up, presence, wireCount>>

\* ------------------------------------------------------------------------
\* The router's loops and API
\* ------------------------------------------------------------------------
TimedOut_at_timeout(snap) ==
    {p \in DOMAIN snap : snap[p].age >= HEARTBEAT_TIMEOUT}

\* The timeout test of _heartbeat_loop: now - peer.last_seen > HEARTBEAT_TIMEOUT.
TimedOut(snap) == {p \in DOMAIN snap : snap[p].age > HEARTBEAT_TIMEOUT}

\* One iteration of _discovery_loop: every presence file but the local one is
\* upserted and gets its fs_inbox; a HANDSHAKE goes to each peer that was not
\* registered.
Discovery(n) ==
    /\ up[n]
    /\ LET found == presence \ {n}
           new == found \ DOMAIN peers[n]
           ps == [p \in DOMAIN peers[n] \cup found |->
                    IF p \in found
                    THEN [get_or_create_peer(peers[n], p)[p] EXCEPT !.fs_inbox = TRUE]
                    ELSE peers[n][p]]
           txs == UNION {send_to_peer(n, ps, p,
                             Envelope(FreshId(Rank(new, p)), "HANDSHAKE", n, p, PubPayload),
                             FALSE) : p \in new}
       IN /\ nextId + Cardinality(new) <= MaxMsgs
          /\ peers' = [peers EXCEPT ![n] = ps]
          /\ fsInbox' = FsWrite(fsInbox, txs)
          /\ nextId' = nextId + Cardinality(new)
          /\ lastSent' = txs
    /\ UNCHANGED <<up, presence, routes, seen, seenOther, wireCount, dataCalls, lastRecv>>

\* One iteration of _heartbeat_loop: a HEARTBEAT to every peer of the
\* snapshot, eviction of the peers that timed out together with the routes
\* through them, then the ROUTE broadcast of the local node and of every
\* route that has not expired.
Heartbeat(n) ==
    /\ up[n]
    /\ LET snap == peers[n]
           beat == {p \in DOMAIN snap : SendOk(snap, p)}
           dead == TimedOut(snap)
           hbs == UNION {send_to_peer(n, snap, p,
                             Envelope(FreshId(Rank(beat, p)), "HB", n, p, NoPayload),
                             FALSE) : p \in beat}
           ps == [p \in DOMAIN snap \ dead |-> snap[p]]
           rt == [d \in {x \in DOMAIN routes[n] : routes[n][x].next_hop \notin dead}
                    |-> routes[n][d]]
           adv == {<<n, 0>>} \cup
                  {<<d, rt[d].metric>> : d \in {x \in DOMAIN rt : ~rt[x].expired}}
           ann == broadcast_env(n, ps,
                      Envelope(FreshId(Cardinality(beat) + 1), "ROUTE", n, Star,
                               RoutePayload(adv)))
           txs == hbs \cup ann
       IN /\ nextId + FreshUsed(txs) <= MaxMsgs
          /\ peers' = [peers EXCEPT ![n] = ps]
          /\ routes' = [routes EXCEPT ![n] = rt]
          /\ fsInbox' = FsWrite(fsInbox, txs)
          /\ nextId' = nextId + FreshUsed(txs)
          /\ lastSent' = txs
    /\ UNCHANGED <<up, presence, seen, seenOther, wireCount, dataCalls, lastRecv>>

\* The payloads the model hands to send_to / broadcast_data.
Payloads == {<<"p1">>}

\* send_to(dest, payload)
SendTo(n, dest, d) ==
    /\ up[n]
    /\ LET txs == route_message(n, peers[n], routes[n],
                      Envelope(FreshId(1), "DATA", n, dest, DataPayload(d)))
       IN /\ txs # {}
          /\ nextId < MaxMsgs
          /\ fsInbox' = FsWrite(fsInbox, txs)
          /\ nextId' = nextId + 1
          /\ lastSent' = txs
    /\ UNCHANGED <<up, presence, peers, routes, seen, seenOther, wireCount,
                   dataCalls, lastRecv>>

\* _broadcast(msg_type, data): a new envelope to "*", to every peer.
Broadcast(n, type, pl) ==
    broadcast_env(n, peers[n], Envelope(FreshId(1), type, n, Star, pl))

\* broadcast_data(payload): the payload is wrapped as {"raw": base64}.
BroadcastData(n, d) ==
    /\ up[n]
    /\ LET txs == Broadcast(n, "DATA", DataPayload(<<"raw">> \o d))
       IN /\ txs # {}
          /\ nextId < MaxMsgs
          /\ fsInbox' = FsWrite(fsInbox, txs)
          /\ nextId' = nextId + 1
          /\ lastSent' = txs
    /\ UNCHANGED <<up, presence, peers, routes, seen, seenOther, wireCount,
                   dataCalls, lastRecv>>

Stop_silent(n) ==
    /\ up[n]
    /\ up' = [up EXCEPT ![n] = FALSE]
    /\ presence' = presence \ {n}
    /\ lastSent' = {}
    /\ UNCHANGED <<peers, routes, seen, seenOther, fsInbox, nextId, wireCount,
                   dataCalls, lastRecv>>

\* LinkRouter.stop: the DATA {"disconnect": true} broadcast, then the
\* transport stops polling and removes the presence file.
Stop(n) ==
    /\ up[n]
    /\ LET txs == Broadcast(n, "DATA", DataPayload(<<"disconnect">>))
       IN /\ nextId + FreshUsed(txs) <= MaxMsgs
          /\ fsInbox' = FsWrite(fsInbox, txs)
          /\ nextId' = nextId + FreshUsed(txs)
          /\ lastSent' = txs
    /\ up' = [up EXCEPT ![n] = FALSE]
    /\ presence' = presence \ {n}
    /\ UNCHANGED <<peers, routes, seen, seenOther, wireCount, dataCalls, lastRecv>>

\* Time passes: HEARTBEAT_TIMEOUT seconds, or more, since peer p was last
\* seen by n.
AgePeer(n, p) ==
    /\ p \in DOMAIN peers[n]
    /\ \E a \in {HEARTBEAT_TIMEOUT, HEARTBEAT_TIMEOUT + 1} :
          /\ peers[n][p].age < a
          /\ peers' = [peers EXCEPT ![n][p].age = a]
    /\ lastSent' = {}
    /\ UNCHANGED <<up, presence, routes, seen, seenOther, fsInbox, nextId,
                   wireCount, dataCalls, lastRecv>>

\* Time passes: more than ROUTE_EXPIRE_SEC since n's route to d was added.
ExpireRoute(n, d) ==
    /\ d \in DOMAIN routes[n]
    /\ ~routes[n][d].expired
    /\ routes' = [routes EXCEPT ![n][d].expired = TRUE]
    /\ lastSent' = {}
    /\ UNCHANGED <<up, presence, peers, seen, seenOther, fsInbox, nextId,
                   wireCount, dataCalls, lastRecv>>

\* ------------------------------------------------------------------------
\* Envelopes written into a transport inbox by processes outside the model
\* (routers that are not in Nodes, or anybody with access to SHARED_DIR).
\* Their hop lists are those of envelopes forwarded by routers: no node
\* twice, at most MAX_HOPS entries, ttl >= 0.
\* ------------------------------------------------------------------------
\* (ttl, hops, xhops) of the DATA envelopes: as sent, ttl exhausted, one
\* hop below MAX_HOPS, and already forwarded by a router of the model.
WireShapes ==
    {<<1, <<>>, 0>>, <<0, <<>>, 0>>, <<1, <<>>, MAX_HOPS - 1>>} \cup
    {<<1, <<p>>, 0>> : p \in Nodes}

WireData ==
    {[msg_id |-> i, msg_type |-> "DATA", source |-> Foreign, destination |-> d,
      ttl |-> sh[1], hops |-> sh[2], xhops |-> sh[3],
      payload |-> DataPayload(<<"p1">>)] :
        i \in WireIds, d \in NodeIds \cup {Star}, sh \in WireShapes}

\* A ROUTE announcement of a router of the model that advertises Foreign, the
\* ROUTE announcement of Foreign when it has a direct route to every router
\* of the model (itself at metric 0, as _heartbeat_loop builds it), and a
\* HANDSHAKE of Foreign, to everyone or to one router of the model.
WireControl ==
    {[msg_id |-> i, msg_type |-> "ROUTE", source |-> s, destination |-> Star,
      ttl |-> MAX_TTL, hops |-> <<>>, xhops |-> 0,
      payload |-> RoutePayload({<<Foreign, 1>>})] : i \in WireIds, s \in Nodes}
    \cup
    {[msg_id |-> i, msg_type |-> "ROUTE", source |-> Foreign, destination |-> Star,
      ttl |-> MAX_TTL, hops |-> <<>>, xhops |-> 0,
      payload |-> RoutePayload({<<Foreign, 0>>} \cup {<<p, 1>> : p \in Nodes})] :
        i \in WireIds}
    \cup
    {[msg_id |-> i, msg_type |-> "HANDSHAKE", source |-> Foreign,
      destination |-> d, ttl |-> MAX_TTL, hops |-> <<>>, xhops |-> 0,
      payload |-> PubPayload] : i \in WireIds, d \in Nodes \cup {Star}}

WireEnvelopes == WireData \cup WireControl

\* The k-th envelope written carries one of the ids 1..k (ids are names:
\* a new id is the next unused one, an old id makes a duplicate).  No router
\* is sent an envelope of its own (_broadcast_env and _send_to_peer go to
\* registered peers, and the local node is never registered).
Wire(n, env) ==
    /\ wireCount < MaxWire
    /\ env.source # n
    /\ env.msg_id <= wireCount + 1
    /\ wireCount' = wireCount + 1
    /\ fsInbox' = [fsInbox EXCEPT
                     ![n] = [i \in DOMAIN fsInbox[n] \cup {env.msg_id} |->
                                IF i = env.msg_id THEN env ELSE fsInbox[n][i]]]
    /\ lastSent' = {}
    /\ UNCHANGED <<up, presence, peers, routes, seen, seenOther, nextId,
                   dataCalls, lastRecv>>

\* ------------------------------------------------------------------------
\* The router specification
\* ------------------------------------------------------------------------
EmptyFn == [x \in {} |-> x]

\* Every router has been constructed and started: its presence file is
\* written, its first HANDSHAKE broadcast found no peer.
RouterInit ==
    /\ up = [n \in Nodes |-> TRUE]
    /\ presence = Nodes
    /\ peers = [n \in Nodes |-> EmptyFn]
    /\ routes = [n \in Nodes |-> EmptyFn]
    /\ seen = [n \in Nodes |-> {}]
    /\ seenOther = [n \in Nodes |-> 0]
    /\ fsInbox = [n \in Nodes |-> EmptyFn]
    /\ nextId = 0
    /\ wireCount = 0
    /\ dataCalls = [n \in Nodes |-> <<>>]
    /\ lastRecv = [node |-> Foreign, env |-> NoEnv]
    /\ lastSent = {}

Init == RouterInit /\ OthersIdle

Next ==
    \/ \E n \in Nodes : FSPoll(n) /\ UNCHANGED otherVars
    \/ \E n \in Nodes : Discovery(n) /\ UNCHANGED otherVars
    \/ \E n \in Nodes : Heartbeat(n) /\ UNCHANGED otherVars
    \/ \E n \in Nodes, dest \in NodeIds, d \in Payloads : SendTo(n, dest, d) /\ UNCHANGED otherVars
    \/ \E n \in Nodes, d \in Payloads : BroadcastData(n, d) /\ UNCHANGED otherVars
    \/ \E n \in Nodes : Stop(n) /\ UNCHANGED otherVars
    \/ \E n \in Nodes, p \in NodeIds : AgePeer(n, p) /\ UNCHANGED otherVars
    \/ \E n \in Nodes, d \in NodeIds : ExpireRoute(n, d) /\ UNCHANGED otherVars

Spec == Init /\ [][Next]_vars

\* The routers with their three loops running for ever: the FS poller, the
\* discovery loop and the heartbeat loop of each router are daemon threads
\* that run while the process does.
SpecLoops ==
    /\ Init
    /\ [][Next]_vars
    /\ \A n \in Nodes :
          /\ WF_vars(FSPoll(n) /\ UNCHANGED otherVars)
          /\ WF_vars(Discovery(n) /\ UNCHANGED otherVars)
          /\ WF_vars(Heartbeat(n) /\ UNCHANGED otherVars)

\* ------------------------------------------------------------------------
\* The routers under arbitrary arrivals.  The start is the network after
\* both discovery loops ran and the HANDSHAKE / ACK exchange was handled:
\* each router has the other as a peer with its fs_inbox and a direct route
\* to it.  A router's _seen set is empty (seen and nextId count from this
\* state on), or holds SeenCap ids of envelopes it handled before.  From
\* there envelopes of WireEnvelopes are written into the transport inboxes
\* and the routers handle what arrives.
\* ------------------------------------------------------------------------
Discovered(n) ==
    [p \in Nodes \ {n} |-> [fs_inbox |-> TRUE, socket_addr |-> FALSE, age |-> 0]]

DirectRoutes(n) == [p \in Nodes \ {n} |-> RouteEntry(p, 1)]

InitWire ==
    /\ up = [n \in Nodes |-> TRUE]
    /\ presence = Nodes
    /\ peers = [n \in Nodes |-> Discovered(n)]
    /\ routes = [n \in Nodes |-> DirectRoutes(n)]
    /\ seen = [n \in Nodes |-> {}]
    /\ seenOther \in {[n \in Nodes |-> 0], [n \in Nodes |-> SeenCap]}
    /\ fsInbox = [n \in Nodes |-> EmptyFn]
    /\ nextId = 0
    /\ wireCount = 0
    /\ dataCalls = [n \in Nodes |-> <<>>]
    /\ lastRecv = [node |-> Foreign, env |-> NoEnv]
    /\ lastSent = {}
    /\ OthersIdle

NextWire ==
    \/ \E n \in Nodes, env \in WireEnvelopes : Wire(n, env) /\ UNCHANGED otherVars
    \/ \E n \in Nodes : FSPoll(n) /\ UNCHANGED otherVars

SpecWire == InitWire /\ [][NextWire]_vars

\* ------------------------------------------------------------------------
\* The heartbeat loop in a network of three: each router of the model has
\* the other and Foreign as peers, with their inboxes, a direct route to the
\* other, and a route to Foreign that is direct or was learned from the
\* other's ROUTE announcement.  Time passes for peers and routes, and the
\* heartbeat loops and the pollers run.
\* ------------------------------------------------------------------------
InitBeat ==
    /\ up = [n \in Nodes |-> TRUE]
    /\ presence = NodeIds
    /\ peers = [n \in Nodes |->
                  [p \in NodeIds \ {n} |-> [fs_inbox |-> TRUE, socket_addr |-> FALSE, age |-> 0]]]
    /\ \E via \in [Nodes -> SUBSET {Foreign}] :
          routes = [n \in Nodes |->
                      [p \in NodeIds \ {n} |->
                          IF p \in Nodes \/ p \in via[n] THEN RouteEntry(p, 1)
                          ELSE RouteEntry(CHOOSE m \in Nodes : m # n, 2)]]
    /\ seen = [n \in Nodes |-> {}]
    /\ seenOther = [n \in Nodes |-> 0]
    /\ fsInbox = [n \in Nodes |-> EmptyFn]
    /\ nextId = 0
    /\ wireCount = 0
    /\ dataCalls = [n \in Nodes |-> <<>>]
    /\ lastRecv = [node |-> Foreign, env |-> NoEnv]
    /\ lastSent = {}
    /\ OthersIdle

NextBeat ==
    \/ \E n \in Nodes : FSPoll(n) /\ UNCHANGED otherVars
    \/ \E n \in Nodes : Heartbeat(n) /\ UNCHANGED otherVars
    \/ \E n \in Nodes, p \in NodeIds : AgePeer(n, p) /\ UNCHANGED otherVars
    \/ \E n \in Nodes, d \in NodeIds : ExpireRoute(n, d) /\ UNCHANGED otherVars

SpecBeat == InitBeat /\ [][NextBeat]_vars

\* The same network after Foreign has stopped for good and both routers of
\* the model have evicted it: its presence file is gone, no router has it
\* as a peer, remove_via(Foreign) has removed every route whose next hop
\* it was, and no envelope is in flight.  What can be left is a route to
\* Foreign that a router learned from the other's ROUTE announcement
\* (add overwrites the direct route), with the other as next hop.
InitGossip ==
    /\ up = [n \in Nodes |-> TRUE]
    /\ presence = Nodes
    /\ peers = [n \in Nodes |->
                  [p \in Nodes \ {n} |-> [fs_inbox |-> TRUE, socket_addr |-> FALSE, age |-> 0]]]
    /\ \E stale \in SUBSET Nodes :
          routes = [n \in Nodes |->
                      [p \in (Nodes \ {n}) \cup (IF n \in stale THEN {Foreign} ELSE {}) |->
                          IF p \in Nodes THEN RouteEntry(p, 1)
                          ELSE RouteEntry(CHOOSE m \in Nodes : m # n, 2)]]
    /\ seen = [n \in Nodes |-> {}]
    /\ seenOther = [n \in Nodes |-> 0]
    /\ fsInbox = [n \in Nodes |-> EmptyFn]
    /\ nextId = 0
    /\ wireCount = 0
    /\ dataCalls = [n \in Nodes |-> <<>>]
    /\ lastRecv = [node |-> Foreign, env |-> NoEnv]
    /\ lastSent = {}
    /\ OthersIdle

SpecGossip == InitGossip /\ [][NextBeat]_vars

\* ------------------------------------------------------------------------
\* Envelope codec (Envelope.to_bytes / from_bytes).  Bytes and characters
\* are numbers (ASCII codes); a str or bytes value is a sequence of them.
\* ------------------------------------------------------------------------
Ch == [quote |-> 34, bslash |-> 92, comma |-> 44, colon |-> 58,
       lbrace |-> 123, rbrace |-> 125, lbrack |-> 91, rbrack |-> 93,
       zero |-> 48, nine |-> 57, newline |-> 10, n |-> 110, space |-> 32,
       byte |-> 256]

\* The header keys "id", "t", "s", "d", "ttl", "h", "ts", "pl".
Keys == [id |-> <<105, 100>>, t |-> <<116>>, s |-> <<115>>, d |-> <<100>>,
         ttl |-> <<116, 116, 108>>, h |-> <<104>>, ts |-> <<116, 115>>,
         pl |-> <<112, 108>>]

\* MsgType.value
TypeValue ==
    [ty \in MsgTypes |->
        CASE ty = "DATA" -> <<68, 65, 84, 65>>
          [] ty = "HANDSHAKE" -> <<72, 65, 78, 68, 83, 72, 65, 75, 69>>
          [] ty = "ACK" -> <<65, 67, 75>>
          [] ty = "HB" -> <<72, 66>>
          [] ty = "ROUTE" -> <<82, 79, 85, 84, 69>>]

\* Envelope(...) with __post_init__: an empty timestamp / msg_id is replaced
\* by the time / uuid of the call, gen = [id, ts].
post_init(id, ty, s, d, ttl, h, ts, pl, gen) ==
    [msg_id |-> IF id = <<>> THEN gen.id ELSE id,
     msg_type |-> ty, source |-> s, destination |-> d, ttl |-> ttl, hops |-> h,
     timestamp |-> IF ts = <<>> THEN gen.ts ELSE ts,
     payload |-> pl]

\* json.dumps of a str (ensure_ascii): quote and backslash get a backslash,
\* newline becomes \n.
RECURSIVE JsonEscape(_)
JsonEscape(str) ==
    IF str = <<>> THEN <<>>
    ELSE (CASE Head(str) \in {Ch.quote, Ch.bslash} -> <<Ch.bslash, Head(str)>>
            [] Head(str) = Ch.newline -> <<Ch.bslash, Ch.n>>
            [] OTHER -> <<Head(str)>>) \o JsonEscape(Tail(str))

JsonStr(str) == <<Ch.quote>> \o JsonEscape(str) \o <<Ch.quote>>

\* json.dumps of an int >= 0
RECURSIVE JsonInt(_)
JsonInt(k) ==
    IF k < 10 THEN <<Ch.zero + k>>
    ELSE JsonInt(k \div 10) \o <<Ch.zero + (k % 10)>>

\* json.dumps of a list of str, separator ","
RECURSIVE JsonList(_)
JsonList(l) ==
    IF l = <<>> THEN <<>>
    ELSE JsonStr(Head(l)) \o (IF Len(l) > 1 THEN <<Ch.comma>> ELSE <<>>)
         \o JsonList(Tail(l))

JsonMember(key, val) == JsonStr(key) \o <<Ch.colon>> \o val

\* struct.pack("!H", k): two bytes, big-endian.
Pack_low_byte_first(k) == <<k % Ch.byte, (k \div Ch.byte) % Ch.byte>>

Pack(k) == <<(k \div Ch.byte) % Ch.byte, k % Ch.byte>>

Header(env) ==
    <<Ch.lbrace>>
    \o JsonMember(Keys.id, JsonStr(env.msg_id)) \o <<Ch.comma>>
    \o JsonMember(Keys.t, JsonStr(TypeValue[env.msg_type])) \o <<Ch.comma>>
    \o JsonMember(Keys.s, JsonStr(env.source)) \o <<Ch.comma>>
    \o JsonMember(Keys.d, JsonStr(env.destination)) \o <<Ch.comma>>
    \o JsonMember(Keys.ttl, JsonInt(env.ttl)) \o <<Ch.comma>>
    \o JsonMember(Keys.h, <<Ch.lbrack>> \o JsonList(env.hops) \o <<Ch.rbrack>>)
    \o <<Ch.comma>>
    \o JsonMember(Keys.ts, JsonStr(env.timestamp)) \o <<Ch.comma>>
    \o JsonMember(Keys.pl, JsonInt(Len(env.payload)))
    \o <<Ch.rbrace>>

to_bytes(env) == Pack(Len(Header(env))) \o Header(env) \o env.payload

\* json.loads, for objects of strings, non-negative ints and lists of
\* strings.  Every parser returns [ok, v, j]: whether it succeeded, the value
\* and the index after it.
At(str, i) == IF i \in 1..Len(str) THEN str[i] ELSE -1

ParseFail == [ok |-> FALSE, v |-> <<>>, j |-> 0]

Unescape(c) == IF c = Ch.n THEN Ch.newline ELSE c

\* i is the index after the opening quote.
RECURSIVE ParseStr(_, _, _)
ParseStr(str, i, acc) ==
    LET c == At(str, i)
    IN CASE c = Ch.quote -> [ok |-> TRUE, v |-> acc, j |-> i + 1]
         [] c = Ch.bslash /\ At(str, i + 1) \in {Ch.quote, Ch.bslash, Ch.n} ->
                ParseStr(str, i + 2, Append(acc, Unescape(At(str, i + 1))))
         [] c >= Ch.space /\ c # Ch.quote /\ c # Ch.bslash ->
                ParseStr(str, i + 1, Append(acc, c))
         [] OTHER -> ParseFail

RECURSIVE ParseInt(_, _, _, _)
ParseInt(str, i, acc, any) ==
    LET c == At(str, i)
    IN IF c >= Ch.zero /\ c <= Ch.nine
       THEN ParseInt(str, i + 1, acc * 10 + (c - Ch.zero), TRUE)
       ELSE IF any THEN [ok |-> TRUE, v |-> acc, j |-> i] ELSE ParseFail

\* i is the index after "[" or after a ",".
RECURSIVE ParseList(_, _, _)
ParseList(str, i, acc) ==
    IF At(str, i) = Ch.rbrack /\ acc = <<>>
    THEN [ok |-> TRUE, v |-> acc, j |-> i + 1]
    ELSE IF At(str, i) # Ch.quote THEN ParseFail
    ELSE LET r == ParseStr(str, i + 1, <<>>)
         IN CASE r.ok /\ At(str, r.j) = Ch.comma ->
                     ParseList(str, r.j + 1, Append(acc, r.v))
              [] r.ok /\ At(str, r.j) = Ch.rbrack ->
                     [ok |-> TRUE, v |-> Append(acc, r.v), j |-> r.j + 1]
              [] OTHER -> ParseFail

ParseValue(str, i) ==
    CASE At(str, i) = Ch.quote -> ParseStr(str, i + 1, <<>>)
      [] At(str, i) = Ch.lbrack -> ParseList(str, i + 1, <<>>)
      [] OTHER -> ParseInt(str, i, 0, FALSE)

\* i is the index of the opening quote of a key; a later key replaces an
\* earlier one.
RECURSIVE ParseMembers(_, _, _)
ParseMembers(str, i, acc) ==
    LET k == IF At(str, i) = Ch.quote THEN ParseStr(str, i + 1, <<>>) ELSE ParseFail
        val == IF k.ok /\ At(str, k.j) = Ch.colon
               THEN ParseValue(str, k.j + 1) ELSE ParseFail
        obj == (k.v :> val.v) @@ acc
    IN CASE val.ok /\ At(str, val.j) = Ch.comma -> ParseMembers(str, val.j + 1, obj)
         [] val.ok /\ At(str, val.j) = Ch.rbrace /\ val.j = Len(str) ->
                [ok |-> TRUE, v |-> obj, j |-> val.j + 1]
         [] OTHER -> ParseFail

Loads(str) ==
    IF At(str, 1) = Ch.lbrace THEN ParseMembers(str, 2, [x \in {} |-> x])
    ELSE ParseFail

\* The result of a from_bytes that raised.
Raised == [ok |-> FALSE]

\* from_bytes(data): hdr_len from the first two bytes, the header parsed
\* from data[2:2+hdr_len], the payload is the rest; the "pl" member is not
\* read.  gen is what __post_init__ would generate.
from_bytes(data, gen) ==
    LET hdr_len == At(data, 1) * Ch.byte + At(data, 2)
        last == IF 2 + hdr_len < Len(data) THEN 2 + hdr_len ELSE Len(data)
        hdr == Loads(SubSeq(data, 3, last))
        h == hdr.v
        need == {Keys.id, Keys.t, Keys.s, Keys.d, Keys.ttl, Keys.h, Keys.ts}
    IN IF Len(data) < 2 \/ ~hdr.ok THEN Raised
       ELSE IF ~(need \subseteq DOMAIN h) THEN Raised
       ELSE IF \A ty \in MsgTypes : TypeValue[ty] # h[Keys.t] THEN Raised
       ELSE [ok |-> TRUE,
             env |-> post_init(h[Keys.id],
                               CHOOSE ty \in MsgTypes : TypeValue[ty] = h[Keys.t],
                               h[Keys.s], h[Keys.d], h[Keys.ttl], h[Keys.h],
                               h[Keys.ts], SubSeq(data, 3 + hdr_len, Len(data)), gen)]

\* The field values the codec is run on: strings with a quote, a backslash,
\* a newline, braces and commas; hop lists up to MaxCodecHops entries and one
\* of MAX_HOPS entries "n01".."n32"; payloads with bytes that look like JSON.
CodecStrs == {<<110, 49>>, <<34, 92, 10, 125, 44>>}

CodecHops ==
    UNION {[1..k -> CodecStrs] : k \in 0..MaxCodecHops}
    \cup {[i \in 1..MAX_HOPS |-> <<Ch.n, Ch.zero + (i \div 10), Ch.zero + (i % 10)>>]}

CodecPayloads == {<<>>, <<0, 255>>, <<125, 34, 123>>}

\* What __post_init__ generates at construction, and at a later call.
GenFirst == [id |-> <<97, 49>>, ts |-> <<50, 48>>]
GenLater == [id |-> <<98, 50>>, ts |-> <<50, 49>>]

CodecEnvelopes ==
    {post_init(id, ty, s, d, ttl, h, ts, pl, GenFirst) :
        id \in {<<>>, <<34, 120>>}, ty \in MsgTypes, s \in CodecStrs,
        d \in {<<42>>, <<110, 49>>}, ttl \in {0, 9, MAX_TTL}, h \in CodecHops,
        ts \in {<<>>, <<92, 84>>}, pl \in CodecPayloads}

InitCodec ==
    /\ RouterInit
    /\ FilesInit({[trusted |-> TRUE, auto_delete |-> TRUE, aead |-> "off"]})
    /\ PairInit
    /\ DaemonInit
    /\ ConcIdle
    /\ \E env \in CodecEnvelopes :
          codec = [pc |-> "new", env |-> env, wire |-> <<>>, back |-> Raised,
                   again |-> <<>>]

Encode ==
    /\ codec.pc = "new"
    /\ codec' = [codec EXCEPT !.pc = "sent", !.wire = to_bytes(codec.env)]
    /\ UNCHANGED <<routerVars, fileVars, pairVars, daemonVars, concVars>>

\* The bytes that reach from_bytes are not the bytes to_bytes made: the
\* input ends early (inside the length prefix, one byte before the end of
\* the header, at the end of the header, one byte before the end of the
\* payload), or a byte follows the payload.
Damage ==
    /\ codec.pc = "sent"
    /\ LET H == Len(Header(codec.env))
           cuts == {1, 1 + H, 2 + H, Len(codec.wire) - 1}
       IN \E data \in {SubSeq(codec.wire, 1, k) : k \in cuts}
                       \cup {Append(codec.wire, 0)} :
             /\ data # codec.wire
             /\ codec' = [codec EXCEPT !.pc = "damaged", !.wire = data]
    /\ UNCHANGED <<routerVars, fileVars, pairVars, daemonVars, concVars>>

\* FSTransport._poll: env = Envelope.from_bytes(f.read_bytes()); the envelope
\* is dispatched to the router iff from_bytes raised nothing.
Decode ==
    /\ codec.pc \in {"sent", "damaged"}
    /\ codec' = [codec EXCEPT !.pc = IF codec.pc = "sent" THEN "received"
                                     ELSE "received_damaged",
                              !.back = from_bytes(codec.wire, GenLater)]
    /\ UNCHANGED <<routerVars, fileVars, pairVars, daemonVars, concVars>>

EncodeAgain ==
    /\ codec.pc = "received"
    /\ codec' = [codec EXCEPT !.pc = "resent", !.again = to_bytes(codec.env)]
    /\ UNCHANGED <<routerVars, fileVars, pairVars, daemonVars, concVars>>

NextCodec == Encode \/ Damage \/ Decode \/ EncodeAgain

SpecCodec == InitCodec /\ [][NextCodec]_vars

\* ------------------------------------------------------------------------
\* The file pipeline (run_normal_mode's watch loop, encode_file,
\* decode_file).  A file name is the sequence of its dot-separated parts,
\* <<"a", "txt">> for a.txt.  A file is [data, from]: its bytes, and for a
\* file made by encode_file or decode_file the plaintext it comes from.
\* The codec (PAXECT_CORE) is a separate program: its encode writes Enc(d),
\* its decode inverts that and exits non-zero on anything else; either can
\* exit non-zero on any run, leaving no output (res "fail") or a part of
\* its output (res "partial").  The AEAD tool (PAXECT_AEAD) is a separate
\* program as well: encrypt writes Seal(d), decrypt inverts that and exits
\* non-zero on anything else, or on any run (res "aead_fail").
\* ------------------------------------------------------------------------
Enc(d) == <<"freq">> \o d

Seal(d) == <<"aead">> \o d

Sealed(d) == d # <<>> /\ Head(d) = "aead"

\* What a codec that exits non-zero has written of its output.
Partial == <<"part">>

Decodable(d) == d # <<>> /\ Head(d) = "freq"

\* sha256_file: different bytes have different digests.
Sha(d) == <<"sha256">> \o d

NoOrigin == [name |-> <<>>, data |-> <<>>]

File(d, o) == [data |-> d, from |-> o]

\* Path.suffix
Suffix(name) == IF Len(name) > 1 THEN name[Len(name)] ELSE ""

with_suffix_appended(name, sfx) == name \o sfx

\* Path.with_suffix(sfx): the last suffix, if any, is replaced.
with_suffix(name, sfx) ==
    (IF Len(name) > 1 THEN SubSeq(name, 1, Len(name) - 1) ELSE name) \o sfx

\* DEFAULT_POLICY["allowed_suffixes"]
AllowedSuffixes ==
    {<<"bin">>, <<"txt">>, <<"json">>, <<"csv">>, <<"aead">>, <<"freq">>,
     <<"aead", "freq">>}

\* path.stat().st_size in MiB: a file whose content starts with "huge" is
\* one MiB above max_file_mb, one that starts with "full" is exactly
\* max_file_mb MiB, any other file is small.
st_size(d) ==
    IF d # <<>> /\ Head(d) = "huge" THEN max_file_mb + 1
    ELSE IF d # <<>> /\ Head(d) = "full" THEN max_file_mb
    ELSE 0

policy_allows_any_size(n, name) ==
    /\ cfg.trusted
    /\ Tail(name) \in AllowedSuffixes \/ <<Suffix(name)>> \in AllowedSuffixes

\* policy_allows: the node is trusted, the joined suffixes or the last
\* suffix are allowed, and the file, if it exists, is not larger than
\* max_file_mb MiB.
policy_allows(n, name) ==
    /\ cfg.trusted
    /\ Tail(name) \in AllowedSuffixes \/ <<Suffix(name)>> \in AllowedSuffixes
    /\ ~(name \in DOMAIN inbox[n] /\ st_size(inbox[n][name].data) > max_file_mb)

\* log_event(cfg, level, event, src, status=...): every call of the file
\* pipeline with level warn or error passes that level as status, the
\* others leave the default "ok".
Event(level, event, src) ==
    [level |-> level, event |-> event, src |-> src,
     status |-> IF level \in {"warn", "error"} THEN level ELSE "ok"]

WriteFile(box, name, file) ==
    [f \in DOMAIN box \cup {name} |-> IF f = name THEN file ELSE box[f]]

Unlink(box, names) == [f \in DOMAIN box \ names |-> box[f]]

\* The result of a handler: the inbox and outbox after it, what it logged.
Effect(ib, ob, ev) == [inbox |-> ib, outbox |-> ob, logged |-> ev]

encode_file(n, src, res) ==
    LET box == inbox[n]
        on == cfg.aead = "on"
        aead_file == with_suffix(src, <<"aead">>)
        freq_file == with_suffix(src, IF on THEN <<"aead", "freq">> ELSE <<"freq">>)
        side == with_suffix(freq_file, <<"freq", "sha256">>)
        origin == [name |-> src, data |-> box[src].data]
        encrypt == on /\ aead_file \notin DOMAIN box
        \* Step 1: box1 is the inbox after run_aead("encrypt", src, aead_file)
        box1 == IF encrypt
                THEN WriteFile(box, aead_file, File(Seal(box[src].data), origin))
                ELSE box
        ev1 == IF encrypt THEN {Event("info", "aead_encrypt", src)} ELSE {}
        encode_src == IF on THEN aead_file ELSE src
        enc == File(Enc(box1[encode_src].data),
                    IF on THEN box1[encode_src].from ELSE origin)
        done == WriteFile(WriteFile(box1, freq_file, enc), side,
                          File(Sha(enc.data), NoOrigin))
    IN CASE Suffix(src) \in {"aead", "freq"} -> Effect(box, outbox[n], {})
         [] freq_file \in DOMAIN box -> Effect(box, outbox[n], {})
         [] encrypt /\ res = "aead_fail" ->
              Effect(box, outbox[n], {Event("error", "aead_encrypt_error", src)})
         [] res \in {"ok", "aead_fail"} ->
              Effect(IF cfg.auto_delete THEN Unlink(done, {src} \cup
                                                 (IF on THEN {aead_file} ELSE {}))
                                        ELSE done,
                     outbox[n], ev1 \cup {Event("info", "encode", src)})
         [] res \in {"nolaunch", "nofile"} -> Effect(box1, outbox[n], ev1)
         [] res = "partial" ->
              Effect(WriteFile(box1, freq_file, File(Partial, NoOrigin)),
                     outbox[n], ev1 \cup {Event("error", "encode_error", src)})
         [] OTHER ->
              Effect(box1, outbox[n], ev1 \cup {Event("error", "encode_error", src)})

\* The sidecar of src, and the checksum test of decode_file.
Sidecar(src) == Append(src, "sha256")

Mismatch_ignored(n, src) == FALSE

Mismatch(n, src) ==
    /\ Sidecar(src) \in DOMAIN inbox[n]
    /\ inbox[n][Sidecar(src)].data # Sha(inbox[n][src].data)

\* ".aead" in src.suffixes
is_encrypted(src) == \E k \in 2..Len(src) : src[k] = "aead"

\* src.name.replace(".freq", "")
aead_name(src) == <<Head(src)>> \o SelectSeq(Tail(src), LAMBDA x : x # "freq")

RECURSIVE DropAeadFreq(_)
DropAeadFreq(sfx) ==
    IF Len(sfx) < 2 THEN sfx
    ELSE IF sfx[1] = "aead" /\ sfx[2] = "freq"
         THEN DropAeadFreq(SubSeq(sfx, 3, Len(sfx)))
         ELSE <<sfx[1]>> \o DropAeadFreq(Tail(sfx))

\* The final file of decode_file: src.name.replace(".aead.freq", "") for an
\* encrypted name, src.with_suffix("").name for any other.
final_name(src) ==
    IF is_encrypted(src) THEN <<Head(src)>> \o DropAeadFreq(Tail(src))
    ELSE with_suffix(src, <<>>)

decode_file(n, src, res) ==
    LET box == inbox[n]
        on == cfg.aead = "on"
        aead_file == aead_name(src)
        final_file == final_name(src)
        decode_dst == IF is_encrypted(src) THEN aead_file ELSE final_file
        out == File(Tail(box[src].data), box[src].from)
        \* Step 1: ob1 is the outbox after the codec has written decode_dst
        ob1 == WriteFile(outbox[n], decode_dst, out)
        decrypt == is_encrypted(src) /\ on
        \* Step 2: the outbox after run_aead("decrypt", aead_file, final_file)
        ob2 == IF decrypt
               THEN Unlink(WriteFile(ob1, final_file,
                                     File(Tail(out.data), out.from)),
                           {aead_file})
               ELSE ob1
        ev2 == IF decrypt THEN {Event("info", "aead_decrypt", aead_file)} ELSE {}
        deleted == IF cfg.auto_delete THEN Unlink(box, {src, Sidecar(src)}) ELSE box
    IN CASE final_file \in DOMAIN outbox[n] -> Effect(box, outbox[n], {})
         [] Mismatch(n, src) ->
              Effect(box, outbox[n], {Event("error", "checksum_mismatch", src)})
         [] res \in {"ok", "aead_fail"} /\ Decodable(box[src].data) ->
              IF decrypt /\ (res = "aead_fail" \/ ~Sealed(out.data))
              THEN Effect(box, Unlink(ob1, {aead_file, final_file}),
                          {Event("error", "aead_decrypt_error", aead_file)})
              ELSE Effect(deleted, ob2, ev2 \cup {Event("info", "decode", src)})
         [] res = "nolaunch" -> Effect(box, outbox[n], {})
         [] res = "nofile" ->
              Effect(deleted, outbox[n], {Event("info", "decode", src)})
         [] res = "partial" ->
              Effect(box, WriteFile(outbox[n], decode_dst, File(Partial, NoOrigin)),
                     {Event("error", "decode_error", src)})
         [] OTHER -> Effect(box, outbox[n], {Event("error", "decode_error", src)})

\* The handler called for src raises: it reaches run_core (no early return)
\* and subprocess.run cannot launch the executable (an OSError, which
\* run_core does not catch), or the encoder exits 0 without writing the
\* .freq and sha256_file(freq_file) finds no file.
Raises(n, src, res) ==
    IF Suffix(src) = "freq"
    THEN /\ with_suffix(src, <<>>) \notin DOMAIN outbox[n]
         /\ ~(/\ Sidecar(src) \in DOMAIN inbox[n]
              /\ inbox[n][Sidecar(src)].data # Sha(inbox[n][src].data))
         /\ res = "nolaunch"
    ELSE /\ Suffix(src) # "aead"
         /\ with_suffix(src, <<"freq">>) \notin DOMAIN inbox[n]
         /\ res \in {"nolaunch", "nofile"}

\* The names created or rewritten between two directories.
Changed(old, new) ==
    {f \in DOMAIN new : f \notin DOMAIN old \/ old[f] # new[f]}

\* One file of one pass of the watch loop: the policy gate, then decode_file
\* for a .freq and encode_file for anything else.
WatchFile(n, f, res) ==
    /\ up[n]
    /\ f \in DOMAIN inbox[n]
    /\ LET eff == CASE ~policy_allows(n, f) ->
                         Effect(inbox[n], outbox[n], {Event("warn", "policy_block", f)})
                    [] Suffix(f) = "freq" -> decode_file(n, f, res)
                    [] OTHER -> encode_file(n, f, res)
       IN /\ inbox' = [inbox EXCEPT ![n] = eff.inbox]
          /\ outbox' = [outbox EXCEPT ![n] = eff.outbox]
          /\ log' = [log EXCEPT ![n] = @ \cup eff.logged]
          /\ lastOp' = [node |-> n,
                        op |-> IF ~policy_allows(n, f) THEN "block"
                               ELSE IF Suffix(f) = "freq" THEN "decode" ELSE "encode",
                        src |-> f,
                        mismatch |-> /\ Append(f, "sha256") \in DOMAIN inbox[n]
                                     /\ inbox[n][Append(f, "sha256")].data
                                            # Sha(inbox[n][f].data),
                        final_exists |-> final_name(f) \in DOMAIN outbox[n],
                        made |-> Changed(outbox[n], eff.outbox),
                        removed |-> DOMAIN inbox[n] \ DOMAIN eff.inbox,
                        logged |-> eff.logged]
    /\ UNCHANGED <<cfg, placed>>

\* A file is put into the inbox of node n from outside (a user, a copy job).
Place(n, name, d) ==
    /\ placed < MaxPlaced
    /\ placed' = placed + 1
    /\ inbox' = [inbox EXCEPT ![n] = WriteFile(@, name, File(d, NoOrigin))]
    /\ lastOp' = [NoOp EXCEPT !.node = n, !.op = "place", !.src = name]
    /\ UNCHANGED <<outbox, log, cfg>>

\* The files put into an inbox: plaintexts, an encoded file, a file that is
\* not an encoding, and sidecars that match the encoded file or nothing.
Placeable ==
    {<< <<"a", "txt">>, <<"p1">> >>, << <<"a", "bin">>, <<"p2">> >>,
     << <<"a", "bin">>, <<"huge">> >>, << <<"a", "bin">>, <<"full">> >>,
     << <<"a", "freq">>, Enc(<<"p1">>) >>, << <<"a", "freq">>, <<"junk">> >>,
     << <<"a", "freq", "sha256">>, Sha(Enc(<<"p1">>)) >>,
     << <<"a", "freq", "sha256">>, Sha(<<"other">>) >>}

CodecResults == {"ok", "fail"}

InitFiles ==
    /\ RouterInit
    /\ codec = CodecIdle
    /\ PairInit
    /\ DaemonInit
    /\ ConcIdle
    /\ FilesInit([trusted : BOOLEAN, auto_delete : BOOLEAN, aead : {"off"}])

\* The pipeline of one node (the pipelines of two nodes share nothing).
NextFiles ==
    \/ \E pl \in Placeable :
          Place("n1", pl[1], pl[2]) /\ UNCHANGED <<routerVars, codec, pairVars, daemonVars, concVars>>
    \/ \E f \in DOMAIN inbox["n1"], res \in CodecResults :
          WatchFile("n1", f, res) /\ UNCHANGED <<routerVars, codec, pairVars, daemonVars, concVars>>

SpecFiles == InitFiles /\ [][NextFiles]_vars

\* The pipeline of a trusted node with or without PAXECT_AEAD, and a codec
\* or AEAD tool that can fail with or without output.  The files put into
\* the inbox are two plaintexts with the same stem, and the .aead.freq file
\* and sidecar that the pipeline of a node with AEAD makes of the first.
PlaceableAead ==
    {<< <<"a", "txt">>, <<"p1">> >>, << <<"a", "csv">>, <<"p2">> >>,
     << <<"a", "aead", "freq">>, Enc(Seal(<<"p1">>)) >>,
     << <<"a", "aead", "freq", "sha256">>, Sha(Enc(Seal(<<"p1">>))) >>}

AeadResults == {"ok", "fail", "partial", "aead_fail"}

InitAead ==
    /\ RouterInit
    /\ codec = CodecIdle
    /\ PairInit
    /\ DaemonInit
    /\ ConcIdle
    /\ FilesInit([trusted : {TRUE}, auto_delete : BOOLEAN, aead : {"off", "on"}])

NextAead ==
    \/ \E pl \in PlaceableAead :
          Place("n1", pl[1], pl[2]) /\ UNCHANGED <<routerVars, codec, pairVars, daemonVars, concVars>>
    \/ \E f \in DOMAIN inbox["n1"], res \in AeadResults :
          WatchFile("n1", f, res) /\ UNCHANGED <<routerVars, codec, pairVars, daemonVars, concVars>>

SpecAead == InitAead /\ [][NextAead]_vars

\* The pipeline of a trusted node that is given two plaintexts with the same
\* stem.  The watch loop keeps running: it handles every file of the inbox
\* again and again, and a codec that has failed succeeds on a later run.
PlaceableStems ==
    {<< <<"a", "txt">>, <<"p1">> >>, << <<"a", "csv">>, <<"p2">> >>}

StemNames ==
    {<<"a", "txt">>, <<"a", "csv">>, <<"a", "aead">>, <<"a", "freq">>,
     <<"a", "aead", "freq">>}

WatchOk(f) ==
    WatchFile("n1", f, "ok") /\ UNCHANGED <<routerVars, codec, pairVars, daemonVars, concVars>>

NextStems ==
    \/ \E pl \in PlaceableStems :
          Place("n1", pl[1], pl[2]) /\ UNCHANGED <<routerVars, codec, pairVars, daemonVars, concVars>>
    \/ \E f \in DOMAIN inbox["n1"] : WatchOk(f)
    \/ \E f \in DOMAIN inbox["n1"] :
          WatchFile("n1", f, "fail") /\ UNCHANGED <<routerVars, codec, pairVars, daemonVars, concVars>>

SpecStems ==
    /\ InitAead
    /\ [][NextStems]_vars
    /\ \A f \in StemNames : WF_vars(WatchOk(f))

\* ------------------------------------------------------------------------
\* Two daemons (run_normal_mode on n1 and on n2): each runs its router and
\* its watch loop; the data callback on_data writes a received DATA payload
\* to OUTBOX/relay_<source>_<ts>.bin.  The start is the network after
\* discovery and the HANDSHAKE / ACK exchange; the policy trusts the local
\* node.  The watch loop calls policy_allows, decode_file and encode_file
\* and nothing of the router; the codec succeeds.
\* ------------------------------------------------------------------------
on_data(n) ==
    LET calls == dataCalls'[n]
        env == calls[Len(calls)]
        name == <<"relay", env.source, ToString(Len(calls)), "bin">>
    IN /\ outbox' = IF Len(calls) > Len(dataCalls[n]) /\ env.payload.data # <<>>
                    THEN [outbox EXCEPT
                            ![n] = WriteFile(@, name, File(env.payload.data, NoOrigin))]
                    ELSE outbox
       /\ lastOp' = [NoOp EXCEPT !.node = n, !.op = "recv"]
       /\ UNCHANGED <<inbox, log, cfg, placed>>

InitRelay ==
    /\ InitWire
    /\ seenOther = [n \in Nodes |-> 0]

RouterStep(n) == FSPoll(n) /\ on_data(n) /\ UNCHANGED <<codec, pairVars, daemonVars, concVars>>

WatchStep(n, f) == WatchFile(n, f, "ok") /\ UNCHANGED <<routerVars, codec, pairVars, daemonVars, concVars>>

NextRelay ==
    \/ Place("n1", <<"a", "txt">>, <<"p1">>) /\ UNCHANGED <<routerVars, codec, pairVars, daemonVars, concVars>>
    \/ \E n \in Nodes : \E f \in DOMAIN inbox[n] : WatchStep(n, f)
    \/ \E n \in Nodes : RouterStep(n)
    \/ \E n \in Nodes : Heartbeat(n) /\ UNCHANGED otherVars
    \/ \E n \in Nodes : Stop(n) /\ UNCHANGED otherVars

\* The names a file of the relay specification can have in an inbox.
RelayNames == {<<"a", "txt">>, <<"a", "freq">>, <<"a", "freq", "sha256">>}

\* Every loop keeps running: the watch loop handles each file again and
\* again, the transport poller handles what is in the inbox.
SpecRelay ==
    /\ InitRelay
    /\ [][NextRelay]_vars
    /\ \A n \in Nodes : WF_vars(RouterStep(n))
    /\ \A n \in Nodes : \A f \in RelayNames : WF_vars(WatchStep(n, f))

\* ------------------------------------------------------------------------
\* Pairing over the file rendezvous (share_mode, wait_for_accept,
\* connect_mode, RendezvousClient._publish_file / _lookup_file /
\* _remove_file).  The sharer and the connector are two processes: each has
\* its own RendezvousClient, so its lock excludes nobody, and a publish or a
\* remove is a load of the file followed by a save of the changed map.  The
\* sharer publishes "code", the connector "accept" (<code>-accept).
\* Time: clock.expired holds the keys whose entry has expired
\* (CODE_EXPIRY_SEC after it was published), clock.timeout says that
\* wait_for_accept's timeout has passed; the timeout equals CODE_EXPIRY_SEC
\* and starts after the code was published, so it passes after the code
\* expired.
\* ------------------------------------------------------------------------
Hostname == [n1 |-> "host1", n2 |-> "host2", nx |-> "hostx"]

OwnKey(p) == IF p = Sharer THEN "code" ELSE "accept"

\* _lookup_file: the entry is present and not expired.
Lookup(k) == k \in DOMAIN rendezvous /\ k \notin clock.expired

\* cfg["trusted_nodes"] gets node_id and hostname; CONFIG is written.
Trust(p, wc) ==
    trusted_nodes' = [trusted_nodes EXCEPT ![p] = @ \cup {wc.node_id, wc.hostname}]

\* main after share_mode + wait_for_accept, or connect_mode, returned peer:
\* "if peer: run_normal_mode(cfg)" and then "return" -- with a peer the
\* process goes on in watch mode, without one main returns and the
\* interpreter exits with status 0.
MainAfter(peer) == IF peer THEN <<>> ELSE <<0>>

\* _publish_file, first half: data = self._load_file()
PublishLoad(p) ==
    /\ proc[p].pc = "pub_load"
    /\ proc' = [proc EXCEPT ![p].pc = "pub_save", ![p].data = rendezvous]
    /\ UNCHANGED <<rendezvous, clock, trusted_nodes>>

\* _publish_file, second half: the expired entries are dropped, the own
\* entry is added, the map is saved.  The sharer goes on to wait_for_accept,
\* the connector to remove(code).
PublishSave(p) ==
    /\ proc[p].pc = "pub_save"
    /\ LET data == proc[p].data
           live == DOMAIN data \ clock.expired
       IN rendezvous' = [k \in live \cup {OwnKey(p)} |->
                            IF k = OwnKey(p)
                            THEN [node_id |-> p, hostname |-> Hostname[p]]
                            ELSE data[k]]
    /\ proc' = [proc EXCEPT
                  ![p].pc = IF p = Sharer THEN "wait" ELSE "rm_load",
                  ![p].todo = IF p = Sharer THEN <<>> ELSE <<"code">>]
    /\ UNCHANGED <<clock, trusted_nodes>>

\* _remove_file, first half: data = self._load_file()
RemoveLoad(p) ==
    /\ proc[p].pc = "rm_load"
    /\ proc' = [proc EXCEPT ![p].pc = "rm_save", ![p].data = rendezvous]
    /\ UNCHANGED <<rendezvous, clock, trusted_nodes>>

\* _remove_file, second half: if the key is in data it is deleted and the
\* map is saved.  After the last remove the function returns.
RemoveSave(p) ==
    /\ proc[p].pc = "rm_save"
    /\ LET data == proc[p].data
           k == Head(proc[p].todo)
       IN rendezvous' = IF k \in DOMAIN data
                        THEN [x \in DOMAIN data \ {k} |-> data[x]]
                        ELSE rendezvous
    /\ proc' = [proc EXCEPT
                  ![p].todo = Tail(@),
                  ![p].pc = IF Len(proc[p].todo) = 1 THEN "done" ELSE "rm_load",
                  ![p].exit = IF Len(proc[p].todo) = 1 THEN MainAfter(proc[p].found)
                              ELSE @]
    /\ UNCHANGED <<clock, trusted_nodes>>

\* connect_mode up to the publish: the lookup of the code; None if it is
\* missing or expired, else the sharer is trusted and CONFIG written.
Connect(p) ==
    /\ proc[p].pc = "connect"
    /\ IF Lookup("code")
       THEN /\ Trust(p, rendezvous["code"])
            /\ proc' = [proc EXCEPT ![p].pc = "pub_load", ![p].found = TRUE]
       ELSE /\ proc' = [proc EXCEPT ![p].pc = "done",
                                    ![p].exit = MainAfter(FALSE)]
            /\ UNCHANGED trusted_nodes
    /\ UNCHANGED <<rendezvous, clock>>

\* One iteration of wait_for_accept's loop: after the timeout, remove(code)
\* and None; else the lookup of <code>-accept: if found the connector is
\* trusted, CONFIG written, and both keys are removed; else sleep.
WaitPoll ==
    /\ proc[Sharer].pc = "wait"
    /\ IF clock.timeout
       THEN /\ proc' = [proc EXCEPT ![Sharer].pc = "rm_load",
                                    ![Sharer].todo = <<"code">>]
            /\ UNCHANGED trusted_nodes
       ELSE IF Lookup("accept")
       THEN /\ Trust(Sharer, rendezvous["accept"])
            /\ proc' = [proc EXCEPT ![Sharer].pc = "rm_load",
                                    ![Sharer].found = TRUE,
                                    ![Sharer].todo = <<"code", "accept">>]
       ELSE UNCHANGED <<proc, trusted_nodes>>
    /\ UNCHANGED <<rendezvous, clock>>

\* Time passes: the entry published under k expires.  The connector's entry
\* is published after wait_for_accept started, so it expires after the
\* timeout.
Expire(k) ==
    /\ k \notin clock.expired
    /\ \E p \in Pairers : k = OwnKey(p) /\ proc[p].pc \notin {"off", "connect", "pub_load", "pub_save"}
    /\ k = "accept" => clock.timeout
    /\ clock' = [clock EXCEPT !.expired = @ \cup {k}]
    /\ UNCHANGED <<rendezvous, proc, trusted_nodes>>

\* Time passes: wait_for_accept's timeout, after the code expired.  The loop
\* polls every 2 seconds: an accept entry that is in the file while the
\* sharer waits is polled before the timeout passes.
Timeout ==
    /\ ~clock.timeout
    /\ "code" \in clock.expired
    /\ "accept" \in DOMAIN rendezvous => proc[Sharer].pc # "wait"
    /\ clock' = [clock EXCEPT !.timeout = TRUE]
    /\ UNCHANGED <<rendezvous, proc, trusted_nodes>>

InitPair ==
    /\ RouterInit
    /\ codec = CodecIdle
    /\ FilesInit({[trusted |-> TRUE, auto_delete |-> TRUE, aead |-> "off"]})
    /\ PairInit
    /\ DaemonInit
    /\ ConcIdle

NextPair ==
    \/ \E p \in Pairers : PublishLoad(p) /\ UNCHANGED <<routerVars, codec, fileVars, daemonVars, concVars>>
    \/ \E p \in Pairers : PublishSave(p) /\ UNCHANGED <<routerVars, codec, fileVars, daemonVars, concVars>>
    \/ \E p \in Pairers : RemoveLoad(p) /\ UNCHANGED <<routerVars, codec, fileVars, daemonVars, concVars>>
    \/ \E p \in Pairers : RemoveSave(p) /\ UNCHANGED <<routerVars, codec, fileVars, daemonVars, concVars>>
    \/ \E p \in Pairers \ {Sharer} : Connect(p) /\ UNCHANGED <<routerVars, codec, fileVars, daemonVars, concVars>>
    \/ WaitPoll /\ UNCHANGED <<routerVars, codec, fileVars, daemonVars, concVars>>
    \/ \E k \in {"code", "accept"} : Expire(k) /\ UNCHANGED <<routerVars, codec, fileVars, daemonVars, concVars>>
    \/ Timeout /\ UNCHANGED <<routerVars, codec, fileVars, daemonVars, concVars>>

SpecPair == InitPair /\ [][NextPair]_vars

\* Two processes run --connect with the sharer's code.
InitConnectors ==
    /\ RouterInit
    /\ codec = CodecIdle
    /\ FilesInit({[trusted |-> TRUE, auto_delete |-> TRUE, aead |-> "off"]})
    /\ rendezvous = [x \in {} |-> x]
    /\ clock = [expired |-> {}, timeout |-> FALSE]
    /\ proc = [p \in Pairers |->
                 [pc |-> IF p = Sharer THEN "pub_load" ELSE "connect",
                  data |-> [x \in {} |-> x], todo |-> <<>>, found |-> FALSE,
                  exit |-> <<>>]]
    /\ trusted_nodes = [p \in Pairers |-> {"localhost"}]
    /\ DaemonInit
    /\ ConcIdle

SpecConnectors == InitConnectors /\ [][NextPair]_vars

\* ------------------------------------------------------------------------
\* The life of the daemon processes of one node directory (main,
\* NodeIdentity.load_or_create, run_normal_mode, _sigterm).  Instances are
\* processes started in the directory of n1: they share LOCKFILE,
\* IDENTITY_FILE, INBOX and OUTBOX.  n2 is a daemon that runs elsewhere.
\* A process goes off -> ident -> (create ->) lock -> watch -> exited; it is
\* "crashed" when an exception left run_normal_mode and "killed" after a
\* SIGKILL.
\* ------------------------------------------------------------------------
Home == "n1"

\* What the codec subprocess can do: exit 0 with the output written, exit
\* non-zero, not start at all, exit 0 without writing the output.
SubprocessOutcomes == {"ok", "fail", "nolaunch", "nofile"}

Watching == {i \in Instances : inst[i].pc = "watch"}

\* A process is started (any mode that ends in run_normal_mode).
Launch(i) ==
    /\ inst[i].pc = "off"
    /\ inst' = [inst EXCEPT ![i] = [NotStarted EXCEPT !.pc = "ident"]]
    /\ UNCHANGED <<lockfile, identity_file, routerVars, fileVars>>

\* load_or_create, first half: path.exists() and the load.
load_or_create(i) ==
    /\ inst[i].pc = "ident"
    /\ inst' = IF identity_file # <<>>
               THEN [inst EXCEPT ![i].pc = "lock", ![i].node_id = identity_file]
               ELSE [inst EXCEPT ![i].pc = "create"]
    /\ UNCHANGED <<lockfile, identity_file, routerVars, fileVars>>

\* load_or_create, second half: a new uuid4 (the process's own, unlike any
\* other) is written to the file, replacing what is there.
CreateIdentity(i) ==
    /\ inst[i].pc = "create"
    /\ identity_file' = <<i>>
    /\ inst' = [inst EXCEPT ![i].pc = "lock", ![i].node_id = <<i>>]
    /\ UNCHANGED <<lockfile, routerVars, fileVars>>

\* run_normal_mode up to the watch loop: os.open(LOCKFILE, O_CREAT | O_EXCL)
\* and, if it succeeds, LinkRouter(cfg) -- which loads the identity again
\* and has no peer, route or seen id -- and router.start() (presence file,
\* HANDSHAKE broadcast to no peer).  FileExistsError: return, exit status 0.
Acquire_not_exclusive(i) ==
    /\ inst[i].pc = "lock"
    /\ nextId + 2 <= MaxMsgs
    /\ lockfile' = <<i>>
    /\ inst' = [inst EXCEPT ![i].pc = "watch", ![i].router_id = identity_file]
    /\ up' = [up EXCEPT ![Home] = TRUE]
    /\ presence' = presence \cup {Home}
    /\ peers' = [peers EXCEPT ![Home] = EmptyFn]
    /\ routes' = [routes EXCEPT ![Home] = EmptyFn]
    /\ seen' = [seen EXCEPT ![Home] = {}]
    /\ seenOther' = [seenOther EXCEPT ![Home] = 0]
    /\ lastSent' = {}
    /\ UNCHANGED <<identity_file, fsInbox, nextId, wireCount, dataCalls,
                   lastRecv, fileVars>>

Acquire(i) ==
    /\ inst[i].pc = "lock"
    /\ IF lockfile = <<>>
       THEN /\ nextId + 2 <= MaxMsgs
            /\ lockfile' = <<i>>
            /\ inst' = [inst EXCEPT ![i].pc = "watch",
                                    ![i].router_id = identity_file]
            /\ up' = [up EXCEPT ![Home] = TRUE]
            /\ presence' = presence \cup {Home}
            /\ peers' = [peers EXCEPT ![Home] = EmptyFn]
            /\ routes' = [routes EXCEPT ![Home] = EmptyFn]
            /\ seen' = [seen EXCEPT ![Home] = {}]
            /\ seenOther' = [seenOther EXCEPT ![Home] = 0]
            /\ lastSent' = {}
            /\ UNCHANGED <<fsInbox, nextId, wireCount, dataCalls, lastRecv>>
       ELSE /\ inst' = [inst EXCEPT ![i].pc = "exited", ![i].exit = <<0>>]
            /\ UNCHANGED <<lockfile, routerVars>>
    /\ UNCHANGED <<identity_file, fileVars>>

\* The watch loop handles one file.  An exception of the handler leaves the
\* loop and the try block: the finally clause unlinks LOCKFILE,
\* router.stop() is not reached, the process ends with a traceback (exit
\* status 1) and its threads with it.
DaemonWatch(i, f, res) ==
    /\ inst[i].pc = "watch"
    /\ WatchFile(Home, f, res)
    /\ IF Raises(Home, f, res)
       THEN /\ inst' = [inst EXCEPT ![i].pc = "crashed", ![i].exit = <<1>>]
            /\ lockfile' = <<>>
            /\ up' = [up EXCEPT ![Home] = FALSE]
            /\ UNCHANGED <<presence, peers, routes, seen, seenOther, fsInbox,
                           nextId, wireCount, dataCalls, lastRecv, lastSent>>
       ELSE UNCHANGED <<inst, lockfile, routerVars>>
    /\ UNCHANGED identity_file

\* _sigterm: SIGINT or SIGTERM while the handlers are installed.
Sigterm(i) ==
    /\ inst[i].pc = "watch"
    /\ inst[i].running
    /\ inst' = [inst EXCEPT ![i].running = FALSE]
    /\ UNCHANGED <<lockfile, identity_file, routerVars, fileVars>>

Shutdown_keeps_lock(i) ==
    /\ inst[i].pc = "watch"
    /\ ~inst[i].running
    /\ Stop(Home)
    /\ inst' = [inst EXCEPT ![i].pc = "exited", ![i].exit = <<0>>]
    /\ UNCHANGED <<lockfile, identity_file, fileVars>>

\* The loop test fails: router.stop(), then the finally clause.
Shutdown(i) ==
    /\ inst[i].pc = "watch"
    /\ ~inst[i].running
    /\ Stop(Home)
    /\ lockfile' = <<>>
    /\ inst' = [inst EXCEPT ![i].pc = "exited", ![i].exit = <<0>>]
    /\ UNCHANGED <<identity_file, fileVars>>

\* SIGKILL (or power loss): the process ends where it is, nothing is
\* cleaned up.
Kill(i) ==
    /\ inst[i].pc \in {"ident", "create", "lock", "watch"}
    /\ inst' = [inst EXCEPT ![i].pc = "killed"]
    /\ up' = IF inst[i].pc = "watch" THEN [up EXCEPT ![Home] = FALSE] ELSE up
    /\ UNCHANGED <<presence, peers, routes, seen, seenOther, fsInbox, nextId,
                   wireCount, dataCalls, lastRecv, lastSent>>
    /\ UNCHANGED <<lockfile, identity_file, fileVars>>

\* An operator finds the lock file stale (no process of the directory is in
\* the watch loop) and removes it.
RemoveStaleLock ==
    /\ lockfile # <<>>
    /\ Watching = {}
    /\ lockfile' = <<>>
    /\ UNCHANGED <<identity_file, inst, routerVars, fileVars>>

\* No process has been started in the directory of n1, whose inbox holds a
\* plaintext file; n2 runs.
InitDaemon ==
    /\ up = [n \in Nodes |-> n # Home]
    /\ presence = Nodes \ {Home}
    /\ peers = [n \in Nodes |-> EmptyFn]
    /\ routes = [n \in Nodes |-> EmptyFn]
    /\ seen = [n \in Nodes |-> {}]
    /\ seenOther = [n \in Nodes |-> 0]
    /\ fsInbox = [n \in Nodes |-> EmptyFn]
    /\ nextId = 0
    /\ wireCount = 0
    /\ dataCalls = [n \in Nodes |-> <<>>]
    /\ lastRecv = [node |-> Foreign, env |-> NoEnv]
    /\ lastSent = {}
    /\ codec = CodecIdle
    /\ inbox = [n \in Nodes |->
                  IF n = Home
                  THEN WriteFile(EmptyFn, <<"a", "txt">>, File(<<"p1">>, NoOrigin))
                  ELSE EmptyFn]
    /\ outbox = [n \in Nodes |-> EmptyFn]
    /\ log = [n \in Nodes |-> {}]
    /\ cfg = [trusted |-> TRUE, auto_delete |-> TRUE, aead |-> "off"]
    /\ placed = 1
    /\ lastOp = NoOp
    /\ PairInit
    /\ DaemonInit
    /\ ConcIdle

ShutdownStep(i) == Shutdown(i) /\ UNCHANGED <<codec, pairVars, concVars>>

NextDaemon ==
    \/ \E i \in Instances : Launch(i) /\ UNCHANGED <<codec, pairVars, concVars>>
    \/ \E i \in Instances : load_or_create(i) /\ UNCHANGED <<codec, pairVars, concVars>>
    \/ \E i \in Instances : CreateIdentity(i) /\ UNCHANGED <<codec, pairVars, concVars>>
    \/ \E i \in Instances : Acquire(i) /\ UNCHANGED <<codec, pairVars, concVars>>
    \/ \E i \in Instances : \E f \in DOMAIN inbox[Home] : \E res \in SubprocessOutcomes :
          DaemonWatch(i, f, res) /\ UNCHANGED <<codec, pairVars, concVars>>
    \/ \E i \in Instances : Sigterm(i) /\ UNCHANGED <<codec, pairVars, concVars>>
    \/ \E i \in Instances : ShutdownStep(i)
    \/ \E i \in Instances : Kill(i) /\ UNCHANGED <<codec, pairVars, concVars>>
    \/ RemoveStaleLock /\ UNCHANGED <<codec, pairVars, concVars>>
    \/ Discovery(Home) /\ UNCHANGED otherVars

\* A process that got the signal leaves the loop at the next loop test.
SpecDaemon ==
    /\ InitDaemon
    /\ [][NextDaemon]_vars
    /\ \A i \in Instances : WF_vars(ShutdownStep(i))

\* ------------------------------------------------------------------------
\* The threads of one router, statement by statement, as far as the four
\* mutexes go.  A function of the source is the sequence of its statements
\* that take a mutex or call a function that does:
\*   <<"acq", L>>, <<"rel", L>>   entry and exit of a "with L:" block
\*   <<"call", f>>                a call of f
\*   <<"opt", f>>                 a call of f under a condition
\*   <<"loop", f>>                f for every element of a list
\*   <<"tail", f>>                "return f(...)" under a condition
\*   <<"ret">>                    "return" under a condition
\* threading.Lock is not reentrant: acquire waits while any thread, the
\* caller included, holds the mutex.
\* ------------------------------------------------------------------------
Locks == {"peers", "routing", "conns", "seen"}

With(L) == <<<<"acq", L>>, <<"rel", L>>>>

on_message_touch_in_dedup ==
    <<<<"acq", "seen">>, <<"call", "touch_peer">>, <<"rel", "seen">>, <<"ret">>,
      <<"tail", "route_message">>, <<"tail", "handle_handshake">>,
      <<"tail", "handle_ack">>, <<"tail", "send_to_peer">>,
      <<"tail", "handle_route">>>>

\* LinkRouter._on_message: the dedup block (which returns on a duplicate),
\* _touch_peer, then the transit branch or the handler of the type.
on_message ==
    With("seen") \o
    <<<<"ret">>, <<"call", "touch_peer">>, <<"ret">>,
      <<"tail", "route_message">>, <<"tail", "handle_handshake">>,
      <<"tail", "handle_ack">>, <<"tail", "send_to_peer">>,
      <<"tail", "handle_route">>>>

Code ==
    [touch_peer |-> With("peers"),
     get_or_create_peer |-> With("peers"),
     add |-> With("routing"),
     get |-> With("routing"),
     remove_via |-> With("routing"),
     \* SocketTransport: _get_conn returns the cached socket, or connects and
     \* stores the new one; send drops the connection on an exception.
     get_conn |-> With("conns") \o <<<<"ret">>>> \o With("conns"),
     drop_conn |-> With("conns"),
     send |-> <<<<"call", "get_conn">>, <<"opt", "drop_conn">>>>,
     sock_stop |-> With("conns"),
     \* LinkRouter
     send_to_peer |-> With("peers") \o <<<<"ret">>, <<"opt", "send">>>>,
     broadcast_env |-> With("peers") \o <<<<"loop", "send_to_peer">>>>,
     route_message |->
         With("peers") \o
         <<<<"tail", "send_to_peer">>, <<"call", "get">>,
           <<"tail", "send_to_peer">>, <<"call", "broadcast_env">>>>,
     handle_handshake |->
         <<<<"call", "get_or_create_peer">>, <<"call", "send_to_peer">>,
           <<"call", "add">>>>,
     handle_ack |-> <<<<"call", "get_or_create_peer">>, <<"call", "add">>>>,
     handle_route |-> <<<<"loop", "add">>>>,
     on_message |-> on_message,
     \* _heartbeat_loop: the snapshot, then for every peer the HEARTBEAT and,
     \* after a timeout, remove_via and the pop; then the ROUTE broadcast.
     heartbeat_peer |->
         <<<<"call", "send_to_peer">>, <<"ret">>, <<"call", "remove_via">>>>
         \o With("peers"),
     heartbeat_pass |->
         With("peers") \o
         <<<<"loop", "heartbeat_peer">>, <<"call", "broadcast_env">>>>,
     heartbeat_loop |-> <<<<"loop", "heartbeat_pass">>>>,
     \* _discovery_loop: for every presence file the upsert and, for a new
     \* peer, the HANDSHAKE.
     discovery_peer |->
         <<<<"call", "get_or_create_peer">>, <<"opt", "send_to_peer">>>>,
     discovery_loop |-> <<<<"loop", "discovery_peer">>>>,
     \* The receivers: FSTransport._poll, SocketTransport._recv_loop, and
     \* _handle, which stores the connection at the first envelope.
     poll |-> <<<<"loop", "on_message">>>>,
     recv_loop |-> <<<<"loop", "on_message">>, <<"call", "drop_conn">>>>,
     handle_first |-> With("conns") \o <<<<"call", "on_message">>>>,
     handle |->
         <<<<"opt", "handle_first">>, <<"loop", "on_message">>,
           <<"opt", "drop_conn">>>>,
     \* The main thread: start (the HANDSHAKE broadcast), send_to, stop.
     stop |-> <<<<"call", "broadcast_env">>, <<"call", "sock_stop">>>>,
     main |->
         <<<<"call", "broadcast_env">>, <<"loop", "route_message">>,
           <<"call", "stop">>>>]

\* The functions the threads of a router run.
Entries ==
    {"heartbeat_loop", "discovery_loop", "poll", "recv_loop", "handle", "main"}

Frame(f) == [fn |-> f, i |-> 1]

Top(st) == st[Len(st)]

\* The statement thread t is at.
Stmt(t) == Code[Top(stack[t]).fn][Top(stack[t]).i]

\* Frames whose function has run to its end return.
RECURSIVE Return(_)
Return(st) ==
    IF st = <<>> THEN st
    ELSE IF Top(st).i > Len(Code[Top(st).fn])
    THEN Return(SubSeq(st, 1, Len(st) - 1))
    ELSE st

Advance(st) == Return([st EXCEPT ![Len(st)].i = @ + 1])

Held == UNION {held[t] : t \in Threads}

\* Thread t executes its next statement.
ThreadStep(t) ==
    /\ stack[t] # <<>>
    /\ LET st == stack[t]
           s == Stmt(t)
           f == s[2]
           call == Append(Advance(st), Frame(f))
           again == Append(st, Frame(f))
           tail == Append(SubSeq(st, 1, Len(st) - 1), Frame(f))
           back == SubSeq(st, 1, Len(st) - 1)
       IN CASE s[1] = "acq" ->
                 /\ f \notin Held
                 /\ held' = [held EXCEPT ![t] = @ \cup {f}]
                 /\ stack' = [stack EXCEPT ![t] = Advance(st)]
            [] s[1] = "rel" ->
                 /\ held' = [held EXCEPT ![t] = @ \ {f}]
                 /\ stack' = [stack EXCEPT ![t] = Advance(st)]
            [] s[1] = "call" ->
                 /\ stack' = [stack EXCEPT ![t] = call]
                 /\ UNCHANGED held
            [] s[1] = "opt" ->
                 /\ stack' \in {[stack EXCEPT ![t] = call],
                                [stack EXCEPT ![t] = Advance(st)]}
                 /\ UNCHANGED held
            [] s[1] = "loop" ->
                 /\ stack' \in {[stack EXCEPT ![t] = again],
                                [stack EXCEPT ![t] = Advance(st)]}
                 /\ UNCHANGED held
            [] s[1] = "tail" ->
                 /\ stack' \in {[stack EXCEPT ![t] = tail],
                                [stack EXCEPT ![t] = Advance(st)]}
                 /\ UNCHANGED held
            [] OTHER ->
                 /\ stack' \in {[stack EXCEPT ![t] = back],
                                [stack EXCEPT ![t] = Advance(st)]}
                 /\ UNCHANGED held
    /\ UNCHANGED <<conns, socks, sender, fsdir, ping>>
    /\ UNCHANGED <<routerVars, codec, fileVars, pairVars, daemonVars>>

\* Any MaxThreads of the router's threads have been started.
InitThreads ==
    /\ RouterInit
    /\ codec = CodecIdle
    /\ FilesInit({[trusted |-> TRUE, auto_delete |-> TRUE, aead |-> "off"]})
    /\ PairInit
    /\ DaemonInit
    /\ held = [t \in Threads |-> {}]
    /\ stack \in [Threads -> {<<Frame(f)>> : f \in Entries}]
    /\ conns = [x \in {} |-> x]
    /\ socks = <<>>
    /\ sender = [c \in Senders |-> [pc |-> "off", c |-> 0]]
    /\ fsdir = DirIdle
    /\ ping = PingIdle

NextThreads == \E t \in Threads : ThreadStep(t)

SpecThreads == InitThreads /\ [][NextThreads]_vars

\* ------------------------------------------------------------------------
\* The TCP transport (SocketTransport) of one router and its connections
\* with one peer, Remote.  A socket is [dir, open, rx, reg, closer]: made by
\* connect ("out") or by accept ("in"); open until close() is called on it;
\* rx is the state of the receiver thread that reads from it (_recv_loop for
\* "out", _handle for "in"); reg tells that _handle has stored it in _conns;
\* closer is 0, or k if the receiver thread of socket k closed it, or -1 if
\* a sender did.
\* ------------------------------------------------------------------------
MaxSocks == 3
Remote == "n2"

NewSock(dir, rx) ==
    [dir |-> dir, open |-> TRUE, rx |-> rx, reg |-> FALSE, closer |-> 0]

\* self._conns[node_id] = c
StoreConn(k) == [x \in {Remote} |-> k]

\* _drop_conn(node_id) called by `by`: the socket that the map holds for the
\* node is popped and closed.
drop_conn(sk, by) ==
    IF Remote \in DOMAIN conns
    THEN [sk EXCEPT ![conns[Remote]].open = FALSE,
                    ![conns[Remote]].closer =
                        IF sk[conns[Remote]].open THEN by ELSE @]
    ELSE sk

\* send -> _get_conn, first block: the cached socket, if there is one.
GetConn(c) ==
    /\ sender[c].pc = "off"
    /\ sender' = [sender EXCEPT ![c] =
                     IF Remote \in DOMAIN conns
                     THEN [pc |-> "sendall", c |-> conns[Remote]]
                     ELSE [pc |-> "connect", c |-> 0]]
    /\ UNCHANGED <<conns, socks>>

\* _get_conn: socket() and connect(); a connect that fails makes send
\* return False.
ConnectSock(c) ==
    /\ sender[c].pc = "connect"
    /\ \/ /\ Len(socks) < MaxSocks
          /\ socks' = Append(socks, NewSock("out", "none"))
          /\ sender' = [sender EXCEPT ![c] = [pc |-> "store", c |-> Len(socks) + 1]]
       \/ /\ sender' = [sender EXCEPT ![c] = [pc |-> "off", c |-> 0]]
          /\ UNCHANGED socks
    /\ UNCHANGED conns

\* _get_conn, second block: the new socket is stored and its _recv_loop
\* thread started.
Store(c) ==
    /\ sender[c].pc = "store"
    /\ conns' = StoreConn(sender[c].c)
    /\ socks' = [socks EXCEPT ![sender[c].c].rx = "run"]
    /\ sender' = [sender EXCEPT ![c].pc = "sendall"]

\* conn.sendall: it returns, or raises (always on a closed socket) and send
\* calls _drop_conn.
SendAll(c) ==
    /\ sender[c].pc = "sendall"
    /\ sender' = [sender EXCEPT ![c] = [pc |-> "off", c |-> 0]]
    /\ \/ /\ socks[sender[c].c].open
          /\ UNCHANGED <<conns, socks>>
       \/ /\ socks' = drop_conn(socks, -1)
          /\ conns' = [x \in {} |-> x]

\* _accept: a connection of Remote is accepted and a _handle thread started.
Accept ==
    /\ Len(socks) < MaxSocks
    /\ socks' = Append(socks, NewSock("in", "run"))
    /\ UNCHANGED <<conns, sender>>

\* _handle, first envelope: peer_id = env.source, self._conns[peer_id] = conn.
HandleFirst(k) ==
    /\ socks[k].dir = "in" /\ socks[k].rx = "run" /\ ~socks[k].reg
    /\ conns' = StoreConn(k)
    /\ socks' = [socks EXCEPT ![k].reg = TRUE]
    /\ UNCHANGED sender

\* The loop of a receiver thread ends (the peer closed, a timeout, an error,
\* or the socket was closed under it): finally, _drop_conn(peer_id); _handle
\* calls it only if peer_id is set.
RecvEnd(k) ==
    /\ socks[k].rx = "run"
    /\ IF socks[k].dir = "out" \/ socks[k].reg
       THEN /\ socks' = [drop_conn(socks, k) EXCEPT ![k].rx = "ended"]
            /\ conns' = [x \in {} |-> x]
       ELSE /\ socks' = [socks EXCEPT ![k].rx = "ended"]
            /\ UNCHANGED conns
    /\ UNCHANGED sender

\* The transport has been started; no connection yet.
InitSock ==
    /\ RouterInit
    /\ codec = CodecIdle
    /\ FilesInit({[trusted |-> TRUE, auto_delete |-> TRUE, aead |-> "off"]})
    /\ PairInit
    /\ DaemonInit
    /\ ConcIdle

SockStep(A) ==
    /\ A
    /\ UNCHANGED <<held, stack, fsdir, ping>>
    /\ UNCHANGED <<routerVars, codec, fileVars, pairVars, daemonVars>>

NextSock ==
    \/ \E c \in Senders : SockStep(GetConn(c))
    \/ \E c \in Senders : SockStep(ConnectSock(c))
    \/ \E c \in Senders : SockStep(Store(c))
    \/ \E c \in Senders : SockStep(SendAll(c))
    \/ SockStep(Accept)
    \/ \E k \in DOMAIN socks : SockStep(HandleFirst(k))
    \/ \E k \in DOMAIN socks : SockStep(RecvEnd(k))

SpecSock == InitSock /\ [][NextSock]_vars

\* ------------------------------------------------------------------------
\* OSLayer.atomic_write into one transport inbox, and the poller of that
\* inbox.  Sender x writes the envelope with its msg_id; the directory has
\* for it the names <msg_id>.msg.tmp and <msg_id>.msg (the msg_ids of two
\* senders differ, as do all msg_ids of the model); each name is 0 (absent)
\* or the index of an inode in ino, whose content is "empty", "part" or
\* "full" (the complete to_bytes() of the envelope).  A sender can write its
\* envelope again (an envelope that comes back to a forwarder is forwarded
\* again under the same msg_id).
\* ------------------------------------------------------------------------
MaxInodes == 3

OpenTmp_in_place(x) ==
    /\ fsdir.w[x].pc = "idle"
    /\ Len(fsdir.ino) < MaxInodes
    /\ fsdir' = [fsdir EXCEPT !.ino = Append(@, "empty"),
                              !.msg[x] = Len(fsdir.ino) + 1,
                              !.tmp[x] = Len(fsdir.ino) + 1,
                              !.w[x] = [pc |-> "write", fd |-> Len(fsdir.ino) + 1]]

\* tmp.open("wb"): the file <msg_id>.msg.tmp is truncated, or created.
OpenTmp(x) ==
    /\ fsdir.w[x].pc = "idle"
    /\ IF fsdir.tmp[x] # 0
       THEN fsdir' = [fsdir EXCEPT !.ino[fsdir.tmp[x]] = "empty",
                                   !.w[x] = [pc |-> "write", fd |-> fsdir.tmp[x]]]
       ELSE /\ Len(fsdir.ino) < MaxInodes
            /\ fsdir' = [fsdir EXCEPT !.ino = Append(@, "empty"),
                                      !.tmp[x] = Len(fsdir.ino) + 1,
                                      !.w[x] = [pc |-> "write",
                                                fd |-> Len(fsdir.ino) + 1]]

\* f.write(data), f.flush(): the bytes reach the open file, all at once or
\* a part of them first.
WriteTmp(x) ==
    /\ fsdir.w[x].pc = "write"
    /\ \/ /\ fsdir.ino[fsdir.w[x].fd] = "empty"
          /\ fsdir' = [fsdir EXCEPT !.ino[fsdir.w[x].fd] = "part"]
       \/ fsdir' = [fsdir EXCEPT !.ino[fsdir.w[x].fd] = "full",
                                 !.w[x].pc = "fsync"]

\* os.fsync(f.fileno()), and the file is closed.
Fsync(x) ==
    /\ fsdir.w[x].pc = "fsync"
    /\ fsdir' = [fsdir EXCEPT !.w[x].pc = "replace"]

\* tmp.replace(path): the name <msg_id>.msg is given to the file that
\* <msg_id>.msg.tmp names, or the rename fails.
Replace(x) ==
    /\ fsdir.w[x].pc = "replace"
    /\ \/ /\ fsdir.tmp[x] # 0
          /\ fsdir' = [fsdir EXCEPT !.msg[x] = fsdir.tmp[x], !.tmp[x] = 0,
                                    !.w[x].pc = "sent"]
       \/ fsdir' = [fsdir EXCEPT !.w[x].pc = "except"]

\* An OSError in open, write or fsync.
RaiseOSError(x) ==
    /\ fsdir.w[x].pc \in {"idle", "write", "fsync"}
    /\ fsdir' = [fsdir EXCEPT !.w[x].pc = "except"]

\* except Exception: tmp.unlink(missing_ok=True); raise.  FSTransport.send
\* returns False.
ExceptUnlink(x) ==
    /\ fsdir.w[x].pc = "except"
    /\ fsdir' = [fsdir EXCEPT !.tmp[x] = 0, !.w[x].pc = "failed"]

\* FSTransport.send is called for the envelope again.
SendAgain(x) ==
    /\ fsdir.w[x].pc \in {"sent", "failed"}
    /\ fsdir' = [fsdir EXCEPT !.w[x] = [pc |-> "idle", fd |-> 0]]

\* FSTransport._poll: a *.msg file is read and unlinked, whether from_bytes
\* parses it or raises.
PollMsg ==
    \E x \in Writers :
        /\ fsdir.msg[x] # 0
        /\ fsdir' = [fsdir EXCEPT !.read = @ \cup {fsdir.ino[fsdir.msg[x]]},
                                  !.msg[x] = 0]

InitAtomic ==
    /\ RouterInit
    /\ OthersIdle

AtomicStep(A) ==
    /\ A
    /\ UNCHANGED <<held, stack, conns, socks, sender, ping>>
    /\ UNCHANGED <<routerVars, codec, fileVars, pairVars, daemonVars>>

NextAtomic ==
    \/ \E x \in Writers : AtomicStep(OpenTmp(x))
    \/ \E x \in Writers : AtomicStep(WriteTmp(x))
    \/ \E x \in Writers : AtomicStep(Fsync(x))
    \/ \E x \in Writers : AtomicStep(Replace(x))
    \/ \E x \in Writers : AtomicStep(RaiseOSError(x))
    \/ \E x \in Writers : AtomicStep(ExceptUnlink(x))
    \/ \E x \in Writers : AtomicStep(SendAgain(x))
    \/ AtomicStep(PollMsg)

SpecAtomic == InitAtomic /\ [][NextAtomic]_vars

\* ------------------------------------------------------------------------
\* The HEARTBEAT envelopes of two routers.  Every HEARTBEAT envelope is
\* made with msg_id "", so __post_init__ gives it a new msg_id and the
\* dedup test of the receiver never drops it.  The k-th HEARTBEAT of the
\* heartbeat loops and the replies it causes are numbered k; box[n] holds
\* the numbers of the HEARTBEAT files in n's transport inbox; known[n] tells
\* that n has the other router in its registry, with its fs_inbox.
\* ------------------------------------------------------------------------
MaxBeats == 6

Other(n) == CHOOSE m \in Nodes : m # n

\* _discovery_loop: the presence file of the other router is upserted.
DiscoverOther(n) ==
    /\ ~ping.known[n]
    /\ ping' = [ping EXCEPT !.known[n] = TRUE]

\* _heartbeat_loop, one pass of a router that has the other as a peer: a
\* HEARTBEAT is written to the peer's inbox.
BeatOnce(n) ==
    /\ ping.running
    /\ ping.known[n]
    /\ ping.beats < MaxBeats
    /\ ping' = [ping EXCEPT !.beats = @ + 1,
                            !.box[Other(n)] = @ \cup {ping.beats + 1}]

\* The heartbeat loops stop emitting.
LoopsStop ==
    /\ ping.running
    /\ ping' = [ping EXCEPT !.running = FALSE]

\* FSTransport._poll and _on_message for a HEARTBEAT: the file is unlinked;
\* _send_to_peer(env.source, Envelope(msg_id="", HEARTBEAT, ...)) writes a
\* HEARTBEAT to the inbox of the source if the source is a registered peer.
PollBeat(n) ==
    \E k \in ping.box[n] :
        ping' = [ping EXCEPT !.box[n] = @ \ {k},
                             !.box[Other(n)] =
                                 IF ping.known[n] THEN @ \cup {k} ELSE @]

PingStep(A) ==
    /\ A
    /\ UNCHANGED <<held, stack, conns, socks, sender, fsdir>>
    /\ UNCHANGED <<routerVars, codec, fileVars, pairVars, daemonVars>>

NextPing ==
    \/ \E n \in Nodes : PingStep(DiscoverOther(n))
    \/ \E n \in Nodes : PingStep(BeatOnce(n))
    \/ PingStep(LoopsStop)
    \/ \E n \in Nodes : PingStep(PollBeat(n))

\* The transport pollers keep running.
SpecPing ==
    /\ InitAtomic
    /\ [][NextPing]_vars
    /\ \A n \in Nodes : WF_vars(PingStep(PollBeat(n)))

\* ------------------------------------------------------------------------
\* Properties of the routers
\* ------------------------------------------------------------------------
NoDup(h) == \A i, j \in 1..Len(h) : h[i] = h[j] => i = j

\* The transmissions of the last step that carry the envelope just handled.
Forwarded == {t \in lastSent : t.env.msg_id = lastRecv.env.msg_id}

\* C2: _on_message invokes the data callback at most once per msg_id, for
\* every sequence of arrivals, also after the seen-set was trimmed.
C2_AtMostOncePerMsgId ==
    \A n \in Nodes : \A i, j \in 1..Len(dataCalls[n]) :
        dataCalls[n][i].msg_id = dataCalls[n][j].msg_id => i = j

\* C4: a forwarded copy has ttl one less than the received envelope; an
\* envelope received with ttl = 0 is not transmitted again by its receiver;
\* no transmitted envelope has a negative ttl.
C4_TtlPerForward ==
    /\ \A t \in Forwarded : t.env.ttl = lastRecv.env.ttl - 1
    /\ lastRecv.env.ttl = 0 => Forwarded = {}
    /\ \A t \in lastSent : t.env.ttl >= 0
    /\ \A n \in Nodes : \A i \in DOMAIN fsInbox[n] : fsInbox[n][i].ttl >= 0

C4_Witness ==
    \E t \in Forwarded :
        /\ t.from = lastRecv.node
        /\ lastRecv.env.ttl = 1
        /\ t.env.ttl = 0

\* C5: every transmitted envelope has no node id twice in hops, and at most
\* MAX_HOPS hops.
C5_HopsNoDupBounded ==
    /\ \A t \in lastSent : NoDup(t.env.hops) /\ HopsLen(t.env) <= MAX_HOPS
    /\ \A n \in Nodes : \A i \in DOMAIN fsInbox[n] :
           NoDup(fsInbox[n][i].hops) /\ HopsLen(fsInbox[n][i]) <= MAX_HOPS

C5_Witness ==
    \E t \in Forwarded :
        /\ HopsLen(t.env) = MAX_HOPS
        /\ t.env.hops = <<lastRecv.node>>

\* C6: a broadcast goes to no peer that is in the envelope's hops; a received
\* envelope to "*" is sent to no node of its hops and gains no duplicate hop.
C6_SplitHorizon ==
    /\ \A t \in lastSent : t.bcast => t.to \notin HopSet(t.env)
    /\ lastRecv.env.destination = Star =>
           \A t \in Forwarded :
               t.to \notin HopSet(lastRecv.env) /\ NoDup(t.env.hops)

\* A router forwarded an envelope by the fallback broadcast and skipped its
\* peer, which is in hops.
C6_Witness ==
    /\ lastRecv.node \in Nodes
    /\ wireCount = 1
    /\ fsInbox = [n \in Nodes |-> EmptyFn]
    /\ lastRecv.env.destination = Foreign
    /\ MayForward(lastRecv.node, lastRecv.env)
    /\ HopSet(lastRecv.env) \cap DOMAIN peers[lastRecv.node] # {}
    /\ Foreign \notin DOMAIN peers[lastRecv.node]
    /\ ~RoutingHas(routes[lastRecv.node], Foreign)
    /\ lastSent = {}

\* C18: the DATA envelopes that one node sent straight to a peer over the
\* filesystem transport reach the peer's data callback in the order in which
\* they were sent (msg_ids of the model grow in the order of generation).
C18_FifoPerPeer ==
    \A n \in Nodes : \A i, j \in 1..Len(dataCalls[n]) :
        /\ i < j
        /\ dataCalls[n][i].source = dataCalls[n][j].source
        /\ dataCalls[n][i].hops = <<>> /\ dataCalls[n][j].hops = <<>>
        => dataCalls[n][i].msg_id < dataCalls[n][j].msg_id

\* C20: when a router takes from its transport inbox an envelope it has not
\* seen and whose destination is neither "*" nor its own id, it calls no
\* handler (no peer is registered, no route added, no ACK or HB generated)
\* and not the data callback; it transmits the envelope, with its own id
\* appended to hops, iff can_forward() holds and its id is not in hops, and
\* transmits nothing otherwise.
C20_TransitOnly ==
    [][\A n \in Nodes : \A id \in DOMAIN fsInbox[n] :
         LET env == fsInbox[n][id]
             fwd == can_forward(env) /\ n \notin HopSet(env)
         IN /\ wireCount' = wireCount
            /\ lastRecv' = [node |-> n, env |-> env]
            /\ id \notin seen[n]
            /\ env.destination \notin {Star, n}
            => /\ dataCalls' = dataCalls
               /\ routes' = routes
               /\ DOMAIN peers'[n] = DOMAIN peers[n]
               /\ nextId' = nextId
               /\ \A t \in lastSent' :
                     /\ t.from = n
                     /\ t.env.msg_id = id
                     /\ t.env.hops = Append(env.hops, n)
                     /\ t.env.payload = env.payload
               /\ lastSent' # {} => fwd
               /\ fwd /\ env.destination \in DOMAIN peers[n]
                      /\ peers[n][env.destination].fs_inbox
                  => \E t \in lastSent' : t.to = env.destination]_vars

\* A router forwarded a HANDSHAKE that was addressed to its peer.
C20_Witness ==
    /\ lastRecv.node \in Nodes
    /\ lastRecv.env.msg_type = "HANDSHAKE"
    /\ lastRecv.env.destination \in Nodes \ {lastRecv.node}
    /\ \E t \in Forwarded : t.to = lastRecv.env.destination
    /\ Foreign \notin DOMAIN peers[lastRecv.node]

\* C21: _route_message takes one of three branches, in this order.  When a
\* router forwards an envelope, the envelope goes to the destination alone
\* and unchanged if the destination is a registered peer; else to the
\* next_hop alone of the route to the destination that has not expired, if
\* there is one; else, with the destination rewritten to "*", as a broadcast
\* to the peers that are not in its hops.
C21_RoutePriority ==
    [][\A n \in Nodes : \A id \in DOMAIN fsInbox[n] :
         LET env == fsInbox[n][id]
             dest == env.destination
             out == add_hop(env, n)
         IN /\ wireCount' = wireCount
            /\ lastRecv' = [node |-> n, env |-> env]
            /\ id \notin seen[n]
            /\ dest \notin {Star, n}
            /\ MayForward(n, env)
            => IF dest \in DOMAIN peers[n]
               THEN /\ \A t \in lastSent' : t.to = dest /\ ~t.bcast /\ t.env = out
                    /\ peers[n][dest].fs_inbox => lastSent' # {}
               ELSE IF RoutingHas(routes[n], dest)
               THEN \A t \in lastSent' :
                        /\ t.to = routes[n][dest].next_hop
                        /\ ~t.bcast
                        /\ t.env = out
               ELSE /\ \A t \in lastSent' :
                          t.bcast /\ t.env = [out EXCEPT !.destination = Star]
                    /\ {t.to : t \in lastSent'} =
                          {p \in DOMAIN peers[n] :
                               peers[n][p].fs_inbox /\ p \notin HopSet(out)}]_vars

\* A router forwarded an envelope for Foreign, which is not its peer, to the
\* next_hop of its route to Foreign, with the destination kept.
C21_Witness ==
    /\ lastRecv.node \in Nodes
    /\ lastRecv.env.destination = Foreign
    /\ Foreign \notin DOMAIN peers[lastRecv.node]
    /\ RoutingHas(routes[lastRecv.node], Foreign)
    /\ \E t \in Forwarded :
           /\ t.to = routes[lastRecv.node][Foreign].next_hop
           /\ t.env.destination = Foreign
           /\ ~t.bcast

\* C22: when a router forwards an envelope by a route entry (the destination
\* is no registered peer and its route has not expired), the next_hop of the
\* entry is a registered peer, or else the envelope is not dropped: it goes
\* out as a broadcast to the peers that are not in its hops.
C22_NextHopRegistered ==
    [][\A n \in Nodes : \A id \in DOMAIN fsInbox[n] :
         LET env == fsInbox[n][id]
             dest == env.destination
             out == add_hop(env, n)
         IN /\ wireCount' = wireCount
            /\ lastRecv' = [node |-> n, env |-> env]
            /\ id \notin seen[n]
            /\ dest \notin {Star, n}
            /\ MayForward(n, env)
            /\ dest \notin DOMAIN peers[n]
            /\ RoutingHas(routes[n], dest)
            => \/ routes[n][dest].next_hop \in DOMAIN peers[n]
               \/ /\ \A t \in lastSent' : t.bcast
                  /\ {t.to : t \in lastSent'} =
                        {p \in DOMAIN peers[n] :
                             peers[n][p].fs_inbox /\ p \notin HopSet(out)}]_vars

\* C23: when a router handles a HANDSHAKE of node X, whether or not X is in
\* its registry, X is registered afterwards, the route (X, next_hop X,
\* metric 1) is installed, and an ACK with the local public identity is
\* written to X's transport inbox.
C23_HandshakeAcked ==
    [][\A n \in Nodes : \A id \in DOMAIN fsInbox[n] :
         LET env == fsInbox[n][id]
             X == env.source
         IN /\ lastRecv' = [node |-> n, env |-> env]
            /\ id \notin seen[n]
            /\ id \in seen'[n]
            /\ env.msg_type = "HANDSHAKE"
            /\ env.destination \in {Star, n}
            => /\ X \in DOMAIN peers'[n]
               /\ X \in DOMAIN routes'[n]
               /\ routes'[n][X] = RouteEntry(X, 1)
               /\ \E t \in lastSent' :
                     /\ t.from = n /\ t.to = X
                     /\ t.env.msg_type = "ACK"
                     /\ t.env.source = n /\ t.env.destination = X
                     /\ t.env.payload = PubPayload
                     /\ X \in Nodes => t.env.msg_id \in DOMAIN fsInbox'[X]]_vars

\* C24: from the viewpoint of a router, a peer enters the registry only
\* when its presence file was seen (Unknown -> Discovered: the entry has the
\* peer's inbox from the first moment), and leaves it only after a heartbeat
\* timeout (Dead -> Evicted).
C24_PeerLifecycle ==
    [][\A n \in Nodes : \A p \in NodeIds :
         /\ p \notin DOMAIN peers[n] /\ p \in DOMAIN peers'[n]
            => peers'[n][p].fs_inbox
         /\ p \in DOMAIN peers[n] /\ p \notin DOMAIN peers'[n]
            => peers[n][p].age > HEARTBEAT_TIMEOUT]_vars

C26_RouteInstall ==
    /\ [](\A n \in Nodes : n \notin DOMAIN routes[n])
    /\ [][\A n \in Nodes : \A id \in DOMAIN fsInbox[n] :
            LET env == fsInbox[n][id]
                adv == {r \in env.payload.routes : r[1] # n}
            IN /\ wireCount' = wireCount
               /\ lastRecv' = [node |-> n, env |-> env]
               /\ id \notin seen[n]
               /\ env.msg_type = "ROUTE"
               /\ env.destination \in {Star, n}
               => /\ DOMAIN routes'[n] = DOMAIN routes[n] \cup {r[1] : r \in adv}
                  /\ \A r \in adv :
                        routes'[n][r[1]] = RouteEntry(env.source, r[2] + 1)
                  /\ \A d \in DOMAIN routes[n] \ {r[1] : r \in adv} :
                        routes'[n][d] = routes[n][d]]_vars

\* A router handled a ROUTE announcement that lists the router itself: the
\* other destinations are installed through the announcer, the local one is
\* not.
C26_Witness ==
    /\ lastRecv.node \in Nodes
    /\ lastRecv.env.msg_type = "ROUTE"
    /\ <<lastRecv.node, 1>> \in lastRecv.env.payload.routes
    /\ Foreign \in DOMAIN routes[lastRecv.node]
    /\ routes[lastRecv.node][Foreign] = RouteEntry(lastRecv.env.source, 1)
    /\ lastRecv.node \notin DOMAIN routes[lastRecv.node]

\* C27: the routing table prefers lower metrics: a route that has not
\* expired is never replaced by a route to the same destination with a
\* strictly higher metric.
C27_LowerMetricKept ==
    [][\A n \in Nodes : \A d \in NodeIds :
         RoutingHas(routes[n], d) /\ d \in DOMAIN routes'[n]
         => routes'[n][d].metric <= routes[n][d].metric]_vars

\* C8: from_bytes(to_bytes(E)) equals E in every field, and a second
\* to_bytes(E) yields the same bytes.
C8_EnvelopeRoundTrip ==
    /\ codec.pc \in {"received", "resent"} =>
           codec.back.ok /\ codec.back.env = codec.env
    /\ codec.pc = "resent" => codec.again = codec.wire

\* An envelope with MAX_HOPS hops, a header of 256 bytes or more, a quote in
\* its source and a payload went through to_bytes and from_bytes.
C8_Witness ==
    /\ codec.pc = "resent"
    /\ Len(codec.env.hops) = MAX_HOPS
    /\ Len(Header(codec.env)) >= Ch.byte
    /\ \E i \in 1..Len(codec.env.source) : codec.env.source[i] = Ch.quote
    /\ codec.env.payload # <<>>
    /\ codec.back.env.payload = codec.env.payload

\* C28: from_bytes fails whenever the declared header length exceeds the
\* bytes that follow the length prefix, or the header's "pl" differs from
\* the number of payload bytes that follow the header; such input is never
\* turned into an envelope and dispatched.  (env is the envelope whose
\* to_bytes() the input was made from, so an intact header declares
\* pl = Len(env.payload).)
C28_MalformedRejected ==
    LET H == Len(Header(codec.env))
        avail == Len(codec.wire) - 2
    IN codec.pc = "received_damaged"
       /\ (avail < H \/ avail - H # Len(codec.env.payload))
       => ~codec.back.ok

RoundTripped(n) == {f \in DOMAIN outbox[n] : outbox[n][f].from # NoOrigin}

\* C7 as stated: <stem>.<ext> is encoded to <stem>.<ext>.freq and decoded to
\* outbox/<stem>.<ext> with the original content.
C7_IdentityOnContentAndName ==
    /\ \A n \in Nodes : \A f \in RoundTripped(n) :
           /\ outbox[n][f].data = outbox[n][f].from.data
           /\ f = outbox[n][f].from.name
    /\ lastOp.op = "encode" /\ lastOp.logged # {} /\ lastOp.logged \subseteq
           {Event("info", "encode", lastOp.src)} =>
           Append(lastOp.src, "freq") \in DOMAIN inbox[lastOp.node]

\* C7 amended: <stem>.<ext> is encoded to <stem>.freq with sidecar
\* <stem>.freq.sha256 and decoded to outbox/<stem>, with the original
\* content: the identity on content, the name loses its extension.
C7_IdentityOnContent ==
    /\ \A n \in Nodes : \A f \in RoundTripped(n) :
           LET o == outbox[n][f].from
           IN /\ outbox[n][f].data = o.data
              /\ Len(o.name) > 1
              /\ f = SubSeq(o.name, 1, Len(o.name) - 1)
    /\ lastOp.op = "encode" /\ lastOp.logged # {} /\ lastOp.logged \subseteq
           {Event("info", "encode", lastOp.src)} =>
           LET box == inbox[lastOp.node]
               freq == Append(SubSeq(lastOp.src, 1, Len(lastOp.src) - 1), "freq")
           IN /\ freq \in DOMAIN box
              /\ box[freq].from.name = lastOp.src
              /\ box[freq].data = Enc(box[freq].from.data)
              /\ Append(freq, "sha256") \in DOMAIN box
              /\ box[Append(freq, "sha256")].data = Sha(box[freq].data)

C7_Witness ==
    \E f \in RoundTripped("n1") :
        /\ outbox["n1"][f].from.name = <<"a", "txt">>
        /\ outbox["n1"][f].data = <<"p1">>
        /\ f = <<"a">>

\* C1: with n2 a peer of n1, a plaintext placed in n1's inbox that passes
\* the policy gate eventually is in n2's outbox with the same content (as
\* long as both daemons run).
C1_RoundTripToPeer ==
    (/\ <<"a", "txt">> \in DOMAIN inbox["n1"]
     /\ policy_allows("n1", <<"a", "txt">>)
     /\ "n2" \in DOMAIN peers["n1"])
    ~> (\/ \E f \in DOMAIN outbox["n2"] : outbox["n2"][f].data = <<"p1">>
        \/ \E n \in Nodes : ~up[n])

\* ------------------------------------------------------------------------
\* Properties of the pairing
\* ------------------------------------------------------------------------
Returned(p) == proc[p].pc = "done"

\* C11: a published code is consumed by at most one connector: no two
\* connect_mode calls for the code both succeed and add the sharer to their
\* trusted_nodes.
C11_SingleUse ==
    \A p, q \in Pairers \ {Sharer} :
        /\ Returned(p) /\ proc[p].found /\ Sharer \in trusted_nodes[p]
        /\ Returned(q) /\ proc[q].found /\ Sharer \in trusted_nodes[q]
        => p = q

\* C12: connect_mode with a code that is absent from the rendezvous file or
\* expired in it fails: nothing is trusted, nothing is published, and the
\* process exits with status 1.
C12_NotFoundExitsOne ==
    \A p \in Pairers \ {Sharer} :
        Returned(p) /\ ~proc[p].found =>
            /\ trusted_nodes[p] = {"localhost"}
            /\ proc[p].exit = <<1>>

\* C9: once connect_mode has succeeded and wait_for_accept has returned, the
\* sharer's policy trusts the connector's node_id and hostname (trust is not
\* one-sided).
C9_TrustIsMutual ==
    Returned(Connector) /\ proc[Connector].found /\ Returned(Sharer) =>
        {Connector, Hostname[Connector]} \subseteq trusted_nodes[Sharer]

\* C10: after connect_mode and wait_for_accept have both returned from a
\* pairing (each found the other's entry), the rendezvous file holds
\* neither <code> nor <code>-accept.
C10_RendezvousClean ==
    /\ Returned(Connector) /\ proc[Connector].found
    /\ Returned(Sharer) /\ proc[Sharer].found
    => DOMAIN rendezvous \cap {"code", "accept"} = {}

C13_SingleInstance ==
    /\ [](Cardinality(Watching) <= 1)
    /\ [][\A i \in Instances :
            inst[i].pc = "lock" /\ inst'[i].pc \notin {"lock", "killed"} =>
                IF lockfile = <<>>
                THEN inst'[i].pc = "watch" /\ lockfile' = <<i>>
                ELSE /\ inst'[i].pc = "exited" /\ inst'[i].exit = <<0>>
                     /\ lockfile' = lockfile
                     /\ routerVars' = routerVars
                     /\ fileVars' = fileVars]_vars

\* Two processes were started; one is in the watch loop and holds the lock,
\* the other has exited without having had a router.
C13_Witness ==
    \E i, j \in Instances :
        /\ inst[i].pc = "watch" /\ lockfile = <<i>>
        /\ inst[j].pc = "exited" /\ inst[j].exit = <<0>> /\ inst[j].router_id = <<>>

\* C14: the process that acquired the lock removes the lock file whenever it
\* leaves run_normal_mode (loop ended, or exception in the loop); the daemon
\* removes it in no other case; while the file of a killed process exists no
\* start enters the watch loop.
C14_LockRemoval ==
    /\ [][\A i \in Instances :
            inst[i].pc = "watch" /\ inst'[i].pc \in {"exited", "crashed"} =>
                lockfile' = <<>>]_vars
    /\ [][lockfile # <<>> /\ lockfile' # lockfile =>
            \/ \E i \in Instances :
                  /\ lockfile = <<i>> /\ inst[i].pc = "watch"
                  /\ inst'[i].pc \in {"exited", "crashed"}
            \/ Watching = {} /\ inst' = inst]_vars
    /\ [][\A i \in Instances :
            lockfile # <<>> /\ inst'[i].pc = "watch" => inst[i].pc = "watch"]_vars

\* The holder of the lock was killed, the file is still there, and a later
\* start has exited without running.
C14_Witness ==
    \E i, j \in Instances :
        /\ inst[i].pc = "killed" /\ lockfile = <<i>> /\ inst[i].router_id # <<>>
        /\ inst[j].pc = "exited" /\ inst[j].router_id = <<>>

\* C15: a running process uses the node_id that IDENTITY_FILE holds (the one
\* a later start loads), in main and in its router.
C15_NodeIdStable ==
    \A i \in Instances :
        /\ inst[i].pc \in {"lock", "watch"} => inst[i].node_id = identity_file
        /\ inst[i].pc = "watch" => inst[i].router_id = identity_file

\* C16: no outcome of the codec subprocess ends the watch loop.
C16_LoopSurvivesCodec ==
    \A i \in Instances : inst[i].pc # "crashed"

C29_OneLockPerThread ==
    LET Waits(t, L) == /\ stack[t] # <<>>
                       /\ Stmt(t) = <<"acq", L>>
    IN /\ \A t \in Threads : Cardinality(held[t]) <= 1
       /\ \A D \in SUBSET Threads \ {{}} :
             \E t \in D : \A u \in D : \A L \in held[u] : ~Waits(t, L)

\* The heartbeat thread, four calls deep, is inside a connection-map block
\* of _get_conn while a receiver thread is inside a registry block.
C29_Witness ==
    \E t, u \in Threads :
        /\ t # u
        /\ held[t] = {"conns"}
        /\ stack[t][1].fn = "heartbeat_loop"
        /\ Len(stack[t]) >= 5
        /\ held[u] = {"peers"}
        /\ stack[u][1].fn \in {"poll", "handle", "recv_loop"}

\* C30: the TCP transport has at most one open outbound connection to a
\* destination at any time; a receiver thread that ends closes no connection
\* but its own; and every open socket that was stored in the connection map
\* and is still read by its receiver thread is the one the map holds.
C30_OneConnection ==
    /\ Cardinality({k \in DOMAIN socks :
                       socks[k].dir = "out" /\ socks[k].open}) <= 1
    /\ \A k \in DOMAIN socks : socks[k].closer \in {-1, 0, k}
    /\ \A k \in DOMAIN socks :
          /\ socks[k].open
          /\ socks[k].rx = "run"
          /\ socks[k].dir = "out" \/ socks[k].reg
          => Remote \in DOMAIN conns /\ conns[Remote] = k

\* C31: every *.msg file of a transport inbox holds the complete bytes of
\* one envelope, whatever step of atomic_write its sender or another sender
\* is at; the poller never reads anything else; and a write that failed
\* has made no .msg file: the one that is there, if any, is complete.
C31_NoPartialMsg ==
    /\ \A x \in Writers :
          fsdir.msg[x] # 0 => fsdir.ino[fsdir.msg[x]] = "full"
    /\ fsdir.read \subseteq {"full"}
    /\ \A x \in Writers :
          fsdir.w[x].pc \in {"except", "failed"} /\ fsdir.w[x].fd # 0 =>
              fsdir.msg[x] # fsdir.w[x].fd

\* The poller has read a file; the envelope of w1 is in the inbox, complete,
\* while w1 writes it again and has written a part to the temporary file,
\* and an earlier write of w2 failed.
C31_Witness ==
    /\ fsdir.read = {"full"}
    /\ fsdir.msg["w1"] # 0
    /\ fsdir.w["w1"].pc = "write"
    /\ fsdir.ino[fsdir.w["w1"].fd] = "part"
    /\ fsdir.w["w2"].pc = "failed"

\* ------------------------------------------------------------------------
\* Properties of the file pipeline with AEAD and failing tools
\* ------------------------------------------------------------------------

\* C32: when decode_file, called for a file whose suffix chain contains
\* .aead, logs the decode event or deletes the .freq or its sidecar, the
\* final file is in outbox and the intermediate .aead file is not.
C32_DecryptedBeforeDelete ==
    /\ lastOp.op = "decode"
    /\ is_encrypted(lastOp.src)
    /\ \/ Event("info", "decode", lastOp.src) \in lastOp.logged
       \/ lastOp.removed # {}
    => /\ final_name(lastOp.src) \in DOMAIN outbox[lastOp.node]
       /\ aead_name(lastOp.src) \notin DOMAIN outbox[lastOp.node]

\* C33: no file written by a codec run that exited non-zero remains in
\* inbox or outbox, so that no later poll takes such a file for the .freq
\* or the final file of an input and skips the input.
C33_NoPartialOutput ==
    \A n \in Nodes :
        /\ \A f \in DOMAIN inbox[n] : inbox[n][f].data # Partial
        /\ \A f \in DOMAIN outbox[n] : outbox[n][f].data # Partial

\* C37: when a.txt and a.csv are both in the inbox of a trusted node, the
\* content of each is eventually in a file of outbox.
C37_BothDelivered ==
    {<<"a", "txt">>, <<"a", "csv">>} \subseteq DOMAIN inbox["n1"]
    ~> \A d \in {<<"p1">>, <<"p2">>} :
           \E f \in DOMAIN outbox["n1"] : outbox["n1"][f].data = d

\* The plaintext a file carries: its bytes without the layers put on by
\* the AEAD tool and the codec.
RECURSIVE Plain(_)
Plain(d) ==
    IF d # <<>> /\ Head(d) \in {"freq", "aead"} THEN Plain(Tail(d)) ELSE d

\* The plaintexts held by the files of node n: the originals in inbox, the
\* .aead and .freq artifacts, the files of outbox.
HeldContents(ib, ob) ==
    {Plain(ib[f].data) : f \in DOMAIN ib} \cup {Plain(ob[f].data) : f \in DOMAIN ob}

\* C38: with auto_delete, no call of encode_file or decode_file loses the
\* content of an inbox file: a plaintext held by the files of the node
\* before the call is held by them after it.
C38_ContentKept ==
    [][\A n \in Nodes :
          /\ cfg.auto_delete
          /\ lastOp'.op \in {"encode", "decode"}
          /\ lastOp'.node = n
          => \A d \in {<<"p1">>, <<"p2">>} :
                d \in HeldContents(inbox[n], outbox[n])
                => d \in HeldContents(inbox'[n], outbox'[n])]_vars

\* ------------------------------------------------------------------------
\* Properties of the routers, continued
\* ------------------------------------------------------------------------

\* C39: every file of a node's outbox was made by the local decode_file or
\* holds a payload that was given to send_to or broadcast_data; the
\* disconnect broadcast of a peer's stop makes no file.
C39_OutboxSources ==
    \A n \in Nodes : \A f \in DOMAIN outbox[n] :
        \/ Head(f) # "relay"
        \/ outbox[n][f].data \in Payloads \cup {<<"raw">> \o d : d \in Payloads}

\* C35: a DATA envelope made by send_to(D, payload) is passed to the data
\* callback of no node but D: every envelope a node's data callback got is
\* addressed to that node or to "*", and "*" only if send_to was not its
\* origin.
C35_DataOnlyAtDestination ==
    \A n \in Nodes : \A i \in DOMAIN dataCalls[n] :
        /\ dataCalls[n][i].msg_type = "DATA"
        /\ dataCalls[n][i].destination \in {n, Star}
        /\ dataCalls[n][i].destination = Star =>
               dataCalls[n][i].payload.data \notin Payloads

\* C34: once the heartbeat loops have stopped emitting, eventually no
\* HEARTBEAT envelope is in a transport inbox.
C34_PingPongQuiesces ==
    ~ping.running ~> \A n \in Nodes : ping.box[n] = {}

\* C36: once Foreign has stopped and every router has evicted it, no step
\* installs, refreshes or lengthens a route with destination Foreign: a
\* router that holds a non-expired route to Foreign after a step held the
\* same entry before it.
C36_NoReinstall ==
    [][\A n \in Nodes :
          /\ Foreign \notin presence
          /\ \A m \in Nodes : Foreign \notin DOMAIN peers[m]
          /\ RoutingHas(routes'[n], Foreign)
          => /\ Foreign \in DOMAIN routes[n]
             /\ routes'[n][Foreign] = routes[n][Foreign]]_vars

\* No PeerInfo of a router's registry has a socket_addr, and no
\* transmission goes over TCP.
NoSocketAddr ==
    /\ \A n \in Nodes : \A p \in DOMAIN peers[n] : ~peers[n][p].socket_addr
    /\ \A t \in lastSent : t.via = "FS"

\* C40: with discovery, the handling of HANDSHAKE and ACK and the loops of
\* the routers running, a state is reached in which a router has recorded
\* a peer's socket_addr in its registry and sends an envelope to that peer
\* over TCP.
C40_TcpSendReached ==
    <>(/\ \E n \in Nodes : \E p \in DOMAIN peers[n] : peers[n][p].socket_addr
       /\ \E t \in lastSent : t.via = "TCP")
====
